---- MODULE Spec2Model ----
(***************************************************************************)
(* Sampling-and-alert-lifecycle engine of the CodeXray observability       *)
(* service: the alerts table and the operations of alerts.Service          *)
(* (CheckThresholds, resolveActiveAlerts, CreateAlert, ResolveAlert), the  *)
(* alert monitoring goroutine of main, and the metrics Collector; main's    *)
(* shutdown around the two loops and their tickers; and the LogAnalyzer.    *)
(*                                                                         *)
(* float64 percentages are modelled as integers. time.Time values are     *)
(* instants of a logical clock that every time.Now() advances.            *)
(***************************************************************************)
EXTENDS Integers, Sequences, FiniteSets, TLC

\* ------------------------------------------------------------------ bounds
MaxAlerts == 2
MaxClock == 4
MaxMetrics == 2
MaxSevValue == 40
MaxSevThreshold == 20
MaxCycles == 2
MaxLines == 3
MaxTokens == 4
MaxRepeat == 2

\* --------------------------------------------------------------- constants
CPUUsage == "cpu_usage"
MemoryUsage == "memory_usage"
MetricTypes == {CPUUsage, MemoryUsage}

AlertActive == "active"
AlertResolved == "resolved"

SeverityLow == "low"
SeverityMedium == "medium"
SeverityHigh == "high"
SeverityCritical == "critical"

DefaultCPUThreshold == 80
DefaultMemoryThreshold == 75

\* a nil *time.Time (resolved_at unset)
Nil == 0

\* percentages the Sample Source may return
Readings == {70, 90}

\* rows a database may already hold in metric_thresholds before start-up
StoredThresholdValues == {70}

\* bodies of POST /alerts requests
ManualValues == {70}
ManualThresholds == {80}

\* values below, at and above the threshold of a request
ManualValuesAround == {70, 80, 90}

VARIABLES
    thresholds,   \* table metric_thresholds, in id order
    alerts,       \* table alerts, in id order
    metrics,      \* table metrics, in id order
    clock,        \* the instant the last time.Now() returned
    crashed,      \* the process died of an unrecovered panic
    evalPc,       \* position of the alert monitoring goroutine
    evalLocal,    \* its locals: the sample, currentMetrics, thresholds, loop index
    evalTrace,    \* what the running cycle did so far, one entry per threshold
    apiResult,    \* what the last manual call returned
    sev,          \* severity probe: inputs and both paths' alerts
    mainPc,       \* position of main: starting (before InitializeThresholds),
                  \* serving, shutdown (cancel() called), exited
    tickC,        \* ticks waiting in each loop's ticker.C (a channel of capacity 1)
    collPc,       \* position of the Collector goroutine
    collLocal,    \* its locals inside collectMetrics: now, cpuPercent, err
    last,         \* how each loop's previous cycle ended
    cycles,       \* how many cycles the two loops have begun
    logRun,       \* one run of LogAnalyzer.ParseLogFile
    call,         \* the last call of a read accessor or of ResolveAlert that was
                  \* observed: operation, argument, result
    sumRun        \* one run of Service.GetAlertSummary

vars == <<thresholds, alerts, metrics, clock, crashed, evalPc, evalLocal,
          evalTrace, apiResult, sev, mainPc, tickC, collPc, collLocal, last,
          cycles, logRun, call, sumRun>>

\* the state of the two loops and of main around them, and of the analyzer
loopVars == <<mainPc, tickC, collPc, collLocal, last, cycles>>
logVars == <<logRun>>
apiVars == <<call, sumRun>>

\* ----------------------------------------------------------------- helpers
Last(s) == s[Len(s)]

SeqToSet(s) == {s[i] : i \in 1..Len(s)}

\* time.Now()
TimeNow == clock + 1

\* the process runs its goroutines and handlers: main has started them, no
\* goroutine panicked and main has not returned
Alive == ~crashed /\ mainPc \in {"serving", "shutdown"}

\* float64 comparison (num / den) * 100 >= k, with IEEE semantics for den = 0:
\* +Inf >= k holds, -Inf >= k and NaN >= k do not
PercentGeq(num, den, k) ==
    IF den > 0 THEN num * 100 >= k * den
    ELSE IF den < 0 THEN num * 100 <= k * den
    ELSE num > 0

\* ------------------------------------------------- alerts.Service, pure part
\* variant: each tier's lower bound is exclusive
PercentGt(num, den, k) == PercentGeq(num, den, k) /\ num * 100 # k * den

calculateSeverityExclusive(value, threshold) ==
    IF PercentGt(value - threshold, threshold, 50) THEN SeverityCritical
    ELSE IF PercentGt(value - threshold, threshold, 25) THEN SeverityHigh
    ELSE IF PercentGt(value - threshold, threshold, 10) THEN SeverityMedium
    ELSE SeverityLow

\* only the lower bound of each tier is tested, highest tier first
calculateSeverity(value, threshold) ==
    IF PercentGeq(value - threshold, threshold, 50) THEN SeverityCritical
    ELSE IF PercentGeq(value - threshold, threshold, 25) THEN SeverityHigh
    ELSE IF PercentGeq(value - threshold, threshold, 10) THEN SeverityMedium
    ELSE SeverityLow

\* the Sprintf arguments are kept beside the type's text
generateAlertMessage(metricType, value, threshold) ==
    [text |-> CASE metricType = CPUUsage -> "High CPU usage detected"
                [] metricType = MemoryUsage -> "High memory usage detected"
                [] OTHER -> "Threshold breached for",
     value |-> value,
     threshold |-> threshold]

\* the Alert literal of CheckThresholds (ID is the zero value until Create)
AutoAlert(threshold, currentValue, currentMetrics) ==
    [id |-> 0,
     type |-> threshold.type,
     message |-> generateAlertMessage(threshold.type, currentValue, threshold.threshold),
     value |-> currentValue,
     threshold |-> threshold.threshold,
     severity |-> calculateSeverity(currentValue, threshold.threshold),
     status |-> AlertActive,
     triggered_at |-> currentMetrics.Timestamp,
     resolved_at |-> Nil]

\* the Alert literal of CreateAlert
ManualAlert(req, now) ==
    [id |-> 0,
     type |-> req.type,
     message |-> generateAlertMessage(req.type, req.value, req.threshold),
     value |-> req.value,
     threshold |-> req.threshold,
     severity |-> calculateSeverity(req.value, req.threshold),
     status |-> AlertActive,
     triggered_at |-> now,
     resolved_at |-> Nil]

\* ---------------------------------------------------------- the alerts table
\* variant: the insert is refused while the type has an active alert
InsertAlertUnlessActive(table, alert) ==
    IF \E i \in 1..Len(table) :
           table[i].type = alert.type /\ table[i].status = AlertActive
    THEN table
    ELSE Append(table, [alert EXCEPT !.id = Len(table) + 1])

\* db.Create: the row gets the next primary key (rows are never deleted)
InsertAlert(table, alert) == Append(table, [alert EXCEPT !.id = Len(table) + 1])

\* WHERE metric_type = ? AND status = 'active'
ActiveOfType(table, metricType) ==
    {i \in 1..Len(table) : table[i].type = metricType /\ table[i].status = AlertActive}

\* variant: the lookup never finds a row
HasActiveAlertNever(table, metricType) == FALSE

\* First(&existingAlert): is there a row (else gorm.ErrRecordNotFound)
HasActiveAlert(table, metricType) == ActiveOfType(table, metricType) # {}

\* variant: the UPDATE touches the first matching row only
ResolveFirstActiveRow(table, metricType, now) ==
    [i \in 1..Len(table) |->
        IF i \in ActiveOfType(table, metricType)
           /\ \A j \in ActiveOfType(table, metricType) : i <= j
        THEN [table[i] EXCEPT !.status = AlertResolved, !.resolved_at = now]
        ELSE table[i]]

\* variant: the UPDATE lacks the metric_type filter
ResolveActiveRowsOfAnyType(table, metricType, now) ==
    [i \in 1..Len(table) |->
        IF table[i].status = AlertActive
        THEN [table[i] EXCEPT !.status = AlertResolved, !.resolved_at = now]
        ELSE table[i]]

\* variant: the UPDATE lacks the status filter
ResolveAllRowsOfType(table, metricType, now) ==
    [i \in 1..Len(table) |->
        IF table[i].type = metricType
        THEN [table[i] EXCEPT !.status = AlertResolved, !.resolved_at = now]
        ELSE table[i]]

\* the UPDATE of resolveActiveAlerts
ResolveActiveRows(table, metricType, now) ==
    [i \in 1..Len(table) |->
        IF i \in ActiveOfType(table, metricType)
        THEN [table[i] EXCEPT !.status = AlertResolved, !.resolved_at = now]
        ELSE table[i]]

\* variant: WHERE id = ?
AnyWithId(table, alertID) == {i \in 1..Len(table) : table[i].id = alertID}

\* WHERE id = ? AND status = 'active'
ActiveWithId(table, alertID) ==
    {i \in 1..Len(table) : table[i].id = alertID /\ table[i].status = AlertActive}

\* variant: the UPDATE lacks id = ? and takes the rows of the alert's type
ResolveRowsOfSameType(table, alertID, now) ==
    [i \in 1..Len(table) |->
        IF /\ table[i].status = AlertActive
           /\ \E j \in ActiveWithId(table, alertID) : table[j].type = table[i].type
        THEN [table[i] EXCEPT !.status = AlertResolved, !.resolved_at = now]
        ELSE table[i]]

\* the UPDATE of ResolveAlert
ResolveRowById(table, alertID, now) ==
    [i \in 1..Len(table) |->
        IF i \in ActiveWithId(table, alertID)
        THEN [table[i] EXCEPT !.status = AlertResolved, !.resolved_at = now]
        ELSE table[i]]

\* ------------------------------------------------------ the thresholds table
ThresholdRow(metricType, threshold, enabled) ==
    [type |-> metricType, threshold |-> threshold, enabled |-> enabled]

DefaultThresholds ==
    <<ThresholdRow(CPUUsage, DefaultCPUThreshold, TRUE),
      ThresholdRow(MemoryUsage, DefaultMemoryThreshold, TRUE)>>

\* variant: the row of a type is never found
HasThresholdNever(table, metricType) == FALSE

HasThreshold(table, metricType) == \E i \in 1..Len(table) : table[i].type = metricType

\* one default is inserted for each type that has no row yet
RECURSIVE InsertMissing(_, _)
InsertMissing(table, defaults) ==
    IF defaults = <<>> THEN table
    ELSE InsertMissing(
             IF HasThreshold(table, Head(defaults).type) THEN table
             ELSE Append(table, Head(defaults)),
             Tail(defaults))

InitializeThresholds(table) == InsertMissing(table, DefaultThresholds)

\* the loop of InitializeThresholds when a query can fail. The queries are
\* numbered as they would run: 2i-1 is the COUNT for the i-th default and 2i
\* its INSERT; k is the number of the next COUNT and failAt the query that
\* fails (0: none). The first error is returned and ends the loop.
RECURSIVE InsertMissingUntil(_, _, _, _)
InsertMissingUntil(table, defaults, k, failAt) ==
    IF defaults = <<>> THEN [thresholds |-> table, err |-> "nil"]
    ELSE IF failAt = k
    THEN [thresholds |-> table, err |-> "failed to check existing threshold"]
    ELSE IF HasThreshold(table, Head(defaults).type)
    THEN InsertMissingUntil(table, Tail(defaults), k + 2, failAt)
    ELSE IF failAt = k + 1
    THEN [thresholds |-> table, err |-> "failed to create threshold"]
    ELSE InsertMissingUntil(Append(table, Head(defaults)), Tail(defaults), k + 2, failAt)

\* variant: the query lacks the enabled filter
AllThresholds(table) == table

\* WHERE enabled = true
IsEnabled(row) == row.enabled
EnabledThresholds(table) == SelectSeq(table, IsEnabled)

\* metric_type is unique: the tables a database can hold at start-up
StoredThresholdTables ==
    {<<>>}
    \cup {<<ThresholdRow(t, v, e)>> :
            t \in MetricTypes, v \in StoredThresholdValues, e \in BOOLEAN}
    \cup {<<ThresholdRow(CPUUsage, v1, e1), ThresholdRow(MemoryUsage, v2, e2)>> :
            v1 \in StoredThresholdValues, v2 \in StoredThresholdValues,
            e1 \in BOOLEAN, e2 \in BOOLEAN}
    \cup {<<ThresholdRow(MemoryUsage, v2, e2), ThresholdRow(CPUUsage, v1, e1)>> :
            v1 \in StoredThresholdValues, v2 \in StoredThresholdValues,
            e1 \in BOOLEAN, e2 \in BOOLEAN}

\* ---------------------------------------------------------- the Sample Source
\* cpu.Percent(time.Second, false): an error, or a list of percentages
CpuResults ==
    {[err |-> TRUE, percents |-> <<>>], [err |-> FALSE, percents |-> <<>>]}
    \cup {[err |-> FALSE, percents |-> <<v>>] : v \in Readings}

\* mem.VirtualMemory(): an error, or UsedPercent
MemResults ==
    {[err |-> TRUE, UsedPercent |-> 0]}
    \cup {[err |-> FALSE, UsedPercent |-> v] : v \in Readings}

\* both calls succeeded: the SystemMetrics that GetCurrentMetrics returns
GetCurrentMetrics(cpuRes, memRes, now) ==
    [CPUUsage |-> IF Len(cpuRes.percents) > 0 THEN cpuRes.percents[1] ELSE 0,
     MemoryUsage |-> memRes.UsedPercent,
     Timestamp |-> now]

\* ------------------------------------------- the alert monitoring goroutine
NoLocal ==
    [cpuPercent |-> <<>>, UsedPercent |-> 0,
     currentMetrics |-> [CPUUsage |-> 0, MemoryUsage |-> 0, Timestamp |-> 0],
     thresholds |-> <<>>, idx |-> 0, err |-> "nil"]

\* the switch on threshold.Type; other types are skipped
KnownType(metricType) == metricType \in {CPUUsage, MemoryUsage}

\* variant: the cases of the switch are crossed
CurrentValueCrossed(metricType, currentMetrics) ==
    IF metricType = CPUUsage THEN currentMetrics.MemoryUsage
    ELSE currentMetrics.CPUUsage

CurrentValue(metricType, currentMetrics) ==
    IF metricType = CPUUsage THEN currentMetrics.CPUUsage
    ELSE currentMetrics.MemoryUsage

\* variant: a reading equal to the threshold counts as a breach
BreachedOrEqual(currentValue, threshold) == currentValue >= threshold.threshold

\* the breach test of the loop body
Breached(currentValue, threshold) == currentValue > threshold.threshold

\* end of a loop body: the next threshold, or return nil after the last one
Continue(local) ==
    [pc |-> IF local.idx >= Len(local.thresholds) THEN "returned" ELSE "loop",
     local |-> [local EXCEPT !.idx = @ + 1]]

\* return fmt.Errorf(...)
ReturnError(local, e) == [pc |-> "returned", local |-> [local EXCEPT !.err = e]]

\* variant: the Create follows a lookup that found a row, too
AfterLookupFound(local, outcome) ==
    IF outcome \in {"notfound", "found"} THEN [pc |-> "create", local |-> local]
    ELSE Continue(local)

\* variant: every lookup that does not return a row leads to the Create
AfterLookupUnlessFound(local, outcome) ==
    IF outcome # "found" THEN [pc |-> "create", local |-> local]
    ELSE Continue(local)


\* First(...) returned err: only gorm.ErrRecordNotFound leads to the Create
AfterLookup(local, outcome) ==
    IF outcome = "notfound" THEN [pc |-> "create", local |-> local]
    ELSE Continue(local)

\* variant: a failed Create is returned to the caller
AfterCreateAbort(local, ok) ==
    IF ok THEN Continue(local) ELSE ReturnError(local, "failed to create alert")

\* db.Create returned: either way only a line is logged
AfterCreate(local, ok) == Continue(local)

\* resolveActiveAlerts returned (it returns nothing, it only logs)
AfterResolve(local, ok) == Continue(local)

TraceEntry(metricType, outcome, rows) ==
    [type |-> metricType, outcome |-> outcome, rows |-> rows]

\* the ticker.C case of the select: GetCurrentMetrics, then the thresholds
\* query of CheckThresholds
EvalCycle ==
    /\ Alive
    /\ evalPc = "select"
    /\ \E cpuRes \in CpuResults, memRes \in MemResults, dbOk \in BOOLEAN :
        IF cpuRes.err \/ memRes.err
        THEN \* logged, continue
             UNCHANGED <<clock, evalPc, evalLocal>>
        ELSE /\ clock < MaxClock
             /\ clock' = TimeNow
             /\ LET local == [NoLocal EXCEPT
                                 !.cpuPercent = cpuRes.percents,
                                 !.UsedPercent = memRes.UsedPercent,
                                 !.currentMetrics =
                                     GetCurrentMetrics(cpuRes, memRes, TimeNow)]
                    found == EnabledThresholds(thresholds)
                    next == IF ~dbOk
                            THEN ReturnError(local, "failed to get thresholds")
                            ELSE Continue([local EXCEPT !.thresholds = found])
                IN  /\ evalPc' = next.pc
                    /\ evalLocal' = next.local
    /\ evalTrace' = <<>>
    /\ UNCHANGED <<thresholds, alerts, metrics, crashed, apiResult, sev, logVars, apiVars>>

\* ticker.C fired and the select received the tick
EvalTick == EvalCycle /\ UNCHANGED loopVars

\* one loop body up to its first write: the breach test, then the lookup of
\* an active alert or the resolution
EvalThreshold ==
    /\ Alive
    /\ evalPc = "loop"
    /\ LET threshold == evalLocal.thresholds[evalLocal.idx]
           currentValue == CurrentValue(threshold.type, evalLocal.currentMetrics)
       IN  IF ~KnownType(threshold.type)
           THEN /\ evalPc' = Continue(evalLocal).pc
                /\ evalLocal' = Continue(evalLocal).local
                /\ UNCHANGED <<alerts, clock, evalTrace>>
           ELSE IF Breached(currentValue, threshold)
           THEN \E dbOk \in BOOLEAN :
                  LET outcome == IF ~dbOk THEN "error"
                                 ELSE IF HasActiveAlert(alerts, threshold.type)
                                 THEN "found" ELSE "notfound"
                      next == AfterLookup(evalLocal, outcome)
                  IN  /\ evalPc' = next.pc
                      /\ evalLocal' = next.local
                      /\ evalTrace' =
                            IF outcome = "notfound" THEN evalTrace
                            ELSE Append(evalTrace,
                                        TraceEntry(threshold.type,
                                            IF dbOk THEN "exists" ELSE "lookup_failed", 0))
                      /\ UNCHANGED <<alerts, clock>>
           ELSE /\ clock < MaxClock
                /\ clock' = TimeNow
                /\ \E dbOk \in BOOLEAN :
                     LET next == AfterResolve(evalLocal, dbOk)
                     IN  /\ evalPc' = next.pc
                         /\ evalLocal' = next.local
                         /\ IF dbOk
                            THEN /\ alerts' = ResolveActiveRows(alerts, threshold.type, TimeNow)
                                 /\ evalTrace' =
                                       Append(evalTrace,
                                              TraceEntry(threshold.type, "resolved",
                                                  Cardinality(ActiveOfType(alerts, threshold.type))))
                            ELSE /\ alerts' = alerts
                                 /\ evalTrace' =
                                       Append(evalTrace,
                                              TraceEntry(threshold.type, "resolve_failed", 0))
    /\ UNCHANGED <<thresholds, metrics, crashed, apiResult, sev,
                   loopVars, logVars, apiVars>>

\* the Create that follows a lookup which found no active alert
EvalCreate ==
    /\ Alive
    /\ evalPc = "create"
    /\ LET threshold == evalLocal.thresholds[evalLocal.idx]
           currentValue == CurrentValue(threshold.type, evalLocal.currentMetrics)
       IN  \E dbOk \in BOOLEAN :
             LET next == AfterCreate(evalLocal, dbOk)
             IN  /\ evalPc' = next.pc
                 /\ evalLocal' = next.local
                 /\ IF dbOk
                    THEN /\ Len(alerts) < MaxAlerts
                         /\ alerts' = InsertAlert(alerts,
                                AutoAlert(threshold, currentValue, evalLocal.currentMetrics))
                         /\ evalTrace' = Append(evalTrace,
                                TraceEntry(threshold.type, "created", 0))
                    ELSE /\ alerts' = alerts
                         /\ evalTrace' = Append(evalTrace,
                                TraceEntry(threshold.type, "create_failed", 0))
    /\ UNCHANGED <<thresholds, metrics, clock, crashed, apiResult, sev,
                   loopVars, logVars, apiVars>>

\* CheckThresholds returned to main, which logs an error and selects again
EvalLoopAgain ==
    /\ Alive
    /\ evalPc = "returned"
    /\ evalPc' = "select"
    /\ evalLocal' = NoLocal
    /\ evalTrace' = <<>>
    /\ UNCHANGED <<thresholds, alerts, metrics, clock, crashed, apiResult, sev, logVars, apiVars>>

EvalReturn == EvalLoopAgain /\ UNCHANGED loopVars

\* ------------------------------------------------------------ manual calls
Requests ==
    [type : MetricTypes, value : ManualValues, threshold : ManualThresholds]

ApiResult(op, err) == [op |-> op, err |-> err]

\* POST /alerts with a body out of requests
CreateAlertOf(requests) ==
    /\ Alive
    /\ clock < MaxClock
    /\ clock' = TimeNow
    /\ \E req \in requests, dbOk \in BOOLEAN :
         IF dbOk
         THEN /\ Len(alerts) < MaxAlerts
              /\ alerts' = InsertAlert(alerts, ManualAlert(req, TimeNow))
              /\ apiResult' = ApiResult("CreateAlert", "nil")
         ELSE /\ alerts' = alerts
              /\ apiResult' = ApiResult("CreateAlert", "failed to create alert")
    /\ UNCHANGED <<thresholds, metrics, crashed, evalPc, evalLocal, evalTrace, sev,
                   loopVars, logVars, apiVars>>

CreateAlert == CreateAlertOf(Requests)

RequestsAround ==
    [type : MetricTypes, value : ManualValuesAround, threshold : ManualThresholds]

\* the same call with values on both sides of the threshold
CreateAlertAround == CreateAlertOf(RequestsAround)

ResolveAlertCall(alertID, dbOk) ==
    /\ Alive
    /\ clock < MaxClock
    /\ clock' = TimeNow
    /\ IF ~dbOk
       THEN /\ alerts' = alerts
            /\ apiResult' = ApiResult("ResolveAlert", "failed to resolve alert")
       ELSE /\ alerts' = ResolveRowById(alerts, alertID, TimeNow)
            /\ apiResult' =
                  ApiResult("ResolveAlert",
                            IF ActiveWithId(alerts, alertID) = {}
                            THEN "alert not found or already resolved" ELSE "nil")
    /\ UNCHANGED <<thresholds, metrics, crashed, evalPc, evalLocal, evalTrace, sev,
                   loopVars, logVars, sumRun>>

ResolveAlert ==
    \E alertID \in 1..(Len(alerts) + 1), dbOk \in BOOLEAN :
        ResolveAlertCall(alertID, dbOk) /\ call' = call

\* ResolveAlert as its caller sees it: the id that was asked for, the answer
ResolveAlertObserved ==
    \E alertID \in 1..(Len(alerts) + 1), dbOk \in BOOLEAN :
        /\ ResolveAlertCall(alertID, dbOk)
        /\ call' = [op |-> "ResolveAlert", arg |-> alertID, result |-> apiResult'.err]

\* ------------------------------------------------------------ the Collector
Metric(metricType, value, timestamp) ==
    [type |-> metricType, value |-> value, unit |-> "%", timestamp |-> timestamp]

\* variant: a reading replaces the stored readings of its type
collectMetricsReplace(table, cpuRes, memRes, cpuSaved, memSaved, now) ==
    LET Others(t, metricType) == SelectSeq(t, LAMBDA row : row.type # metricType)
    IN  IF cpuRes.err
        THEN [metrics |-> table, err |-> "failed to get CPU usage", panic |-> FALSE]
        ELSE LET withCpu ==
                     IF Len(cpuRes.percents) > 0 /\ cpuSaved
                     THEN Append(Others(table, CPUUsage),
                                 Metric(CPUUsage, cpuRes.percents[1], now))
                     ELSE table
             IN  IF memRes.err
                 THEN [metrics |-> withCpu, err |-> "failed to get memory usage",
                       panic |-> FALSE]
                 ELSE [metrics |->
                           IF memSaved
                           THEN Append(Others(withCpu, MemoryUsage),
                                       Metric(MemoryUsage, memRes.UsedPercent, now))
                           ELSE withCpu,
                       err |-> "nil",
                       panic |-> Len(cpuRes.percents) = 0]


\* one run of collectMetrics on the metrics table: the table it leaves, the
\* error it returns, and whether the closing log line indexes an empty list
collectMetrics(table, cpuRes, memRes, cpuSaved, memSaved, now) ==
    IF cpuRes.err
    THEN [metrics |-> table, err |-> "failed to get CPU usage", panic |-> FALSE]
    ELSE LET withCpu ==
                 IF Len(cpuRes.percents) > 0 /\ cpuSaved
                 THEN Append(table, Metric(CPUUsage, cpuRes.percents[1], now))
                 ELSE table
         IN  IF memRes.err
             THEN [metrics |-> withCpu, err |-> "failed to get memory usage",
                   panic |-> FALSE]
             ELSE [metrics |->
                       IF memSaved
                       THEN Append(withCpu, Metric(MemoryUsage, memRes.UsedPercent, now))
                       ELSE withCpu,
                   err |-> "nil",
                   panic |-> Len(cpuRes.percents) = 0]

\* ticker.C of Collector.Start fired
CollectTick ==
    /\ Alive
    /\ clock < MaxClock
    /\ clock' = TimeNow
    /\ \E cpuRes \in CpuResults, memRes \in MemResults,
          cpuSaved \in BOOLEAN, memSaved \in BOOLEAN :
         LET r == collectMetrics(metrics, cpuRes, memRes, cpuSaved, memSaved, TimeNow)
         IN  /\ Len(r.metrics) <= MaxMetrics
             /\ metrics' = r.metrics
             /\ crashed' = r.panic
    /\ UNCHANGED <<thresholds, alerts, evalPc, evalLocal, evalTrace, apiResult, sev,
                   loopVars, logVars, apiVars>>

\* ORDER BY timestamp DESC LIMIT 1 over the rows of a type (0: no row)
LatestOfType(table, metricType) ==
    LET rows == {i \in 1..Len(table) : table[i].type = metricType}
    IN  IF rows = {} THEN 0
        ELSE CHOOSE i \in rows : \A j \in rows : j <= i

\* ------------------------------------------------------- calls of the API
\* no call observed yet
NoCall == [op |-> "none", arg |-> 0, result |-> <<>>]

\* a run of GetAlertSummary that has not begun
NoSumRun ==
    [pc |-> "idle", total |-> 0, active |-> 0, resolved |-> 0,
     byType |-> <<>>, bySeverity |-> <<>>, recent |-> <<>>, err |-> "nil"]

InitApi ==
    /\ call = NoCall
    /\ sumRun = NoSumRun

\* ------------------------------------------------- read accessors of metrics
\* the limit values of a query (0: no LIMIT clause)
Limits == {0, 1}

\* WHERE metric_type = ? ORDER BY timestamp DESC [LIMIT limit]: the rows of a
\* type, latest first (rows of equal timestamp in id order)
HistoryOf(table, metricType, limit) ==
    LET rows == {i \in 1..Len(table) : table[i].type = metricType}
        before(i) == {j \in rows : \/ table[j].timestamp > table[i].timestamp
                                   \/ /\ table[j].timestamp = table[i].timestamp
                                      /\ j < i}
        n == IF limit > 0 /\ limit < Cardinality(rows) THEN limit ELSE Cardinality(rows)
    IN  [k \in 1..n |-> table[CHOOSE i \in rows : Cardinality(before(i)) = k - 1]]

RECURSIVE SumValues(_)
SumValues(rows) == IF rows = <<>> THEN 0 ELSE Head(rows).value + SumValues(Tail(rows))

\* SELECT AVG(value), MIN(value), MAX(value), COUNT(*) over the last limit
\* rows of a type; the average is kept as a fraction, and the aggregates of
\* no row are zero values
SummaryOf(table, metricType, limit) ==
    LET rows == HistoryOf(table, metricType, limit)
        values == {rows[k].value : k \in 1..Len(rows)}
    IN  [Type |-> metricType,
         Average |-> IF rows = <<>> THEN <<0, 1>> ELSE <<SumValues(rows), Len(rows)>>,
         Min |-> IF rows = <<>> THEN 0 ELSE CHOOSE v \in values : \A w \in values : v <= w,
         Max |-> IF rows = <<>> THEN 0 ELSE CHOOSE v \in values : \A w \in values : w <= v,
         Count |-> Len(rows)]

\* Collector.GetMetricHistory
GetMetricHistory ==
    /\ Alive
    /\ \E metricType \in MetricTypes, limit \in Limits, dbOk \in BOOLEAN :
         call' = [op |-> "GetMetricHistory", arg |-> metricType,
                  result |-> IF dbOk THEN [err |-> "nil",
                                           rows |-> HistoryOf(metrics, metricType, limit)]
                             ELSE [err |-> "failed to get metric history", rows |-> <<>>]]
    /\ UNCHANGED <<thresholds, alerts, metrics, clock, crashed, evalPc, evalLocal,
                   evalTrace, apiResult, sev, loopVars, logVars, sumRun>>

\* Collector.GetMetricSummary
GetMetricSummary ==
    /\ Alive
    /\ \E metricType \in MetricTypes, limit \in Limits, dbOk \in BOOLEAN :
         call' = [op |-> "GetMetricSummary", arg |-> metricType,
                  result |-> IF dbOk THEN [err |-> "nil",
                                           summary |-> SummaryOf(metrics, metricType, limit)]
                             ELSE [err |-> "failed to get metric summary"]]
    /\ UNCHANGED <<thresholds, alerts, metrics, clock, crashed, evalPc, evalLocal,
                   evalTrace, apiResult, sev, loopVars, logVars, sumRun>>

\* Collector.GetCurrentMetrics called by the handler of GET /metrics/current:
\* a fresh sample or an error, no query
CurrentMetricsCall ==
    /\ Alive
    /\ \E cpuRes \in CpuResults, memRes \in MemResults :
         IF cpuRes.err \/ memRes.err
         THEN /\ call' = [op |-> "GetCurrentMetrics", arg |-> 0,
                          result |-> [err |-> IF cpuRes.err THEN "failed to get CPU usage"
                                              ELSE "failed to get memory usage"]]
              /\ clock' = clock
         ELSE /\ clock < MaxClock
              /\ clock' = TimeNow
              /\ call' = [op |-> "GetCurrentMetrics", arg |-> 0,
                          result |-> [err |-> "nil",
                                      metrics |-> GetCurrentMetrics(cpuRes, memRes, TimeNow)]]
    /\ UNCHANGED <<thresholds, alerts, metrics, crashed, evalPc, evalLocal,
                   evalTrace, apiResult, sev, loopVars, logVars, sumRun>>

\* ------------------------------------------------- Service.GetAlertSummary
\* SELECT COUNT(*) [WHERE status = ?]
CountAlerts(table, statuses) ==
    Cardinality({i \in 1..Len(table) : table[i].status \in statuses})

\* SELECT column, COUNT(*) GROUP BY column: one entry for each value of the
\* column that a row has
GroupCounts(table, column) ==
    [k \in {table[i][column] : i \in 1..Len(table)} |->
        Cardinality({i \in 1..Len(table) : table[i][column] = k})]

\* GetAlerts("", limit): ORDER BY triggered_at DESC [LIMIT limit]; rows of
\* equal triggered_at come in any order
GetAlertsOf(table, limit) ==
    LET n == Len(table)
        keep == IF limit > 0 /\ limit < n THEN limit ELSE n
        orders == {order \in [1..n -> 1..n] :
                     /\ \A i, j \in 1..n : i # j => order[i] # order[j]
                     /\ \A i, j \in 1..n :
                           i < j => table[order[i]].triggered_at
                                       >= table[order[j]].triggered_at}
    IN  {[i \in 1..keep |-> table[order[i]]] : order \in orders}

\* the error return of GetAlertSummary: nil and the error
SummaryFailed(e) == [NoSumRun EXCEPT !.pc = "done", !.err = e]

\* GetAlertSummary is called and runs its first query, the count of all alerts
SummaryTotal ==
    /\ Alive
    /\ sumRun.pc \in {"idle", "done"}
    /\ \E dbOk \in BOOLEAN :
         sumRun' = IF dbOk
                   THEN [NoSumRun EXCEPT !.pc = "active",
                                         !.total = CountAlerts(alerts, {AlertActive, AlertResolved})]
                   ELSE SummaryFailed("failed to count total alerts")
    /\ UNCHANGED <<thresholds, alerts, metrics, clock, crashed, evalPc, evalLocal,
                   evalTrace, apiResult, sev, loopVars, logVars, call>>

\* the count of the active alerts
SummaryActive ==
    /\ Alive
    /\ sumRun.pc = "active"
    /\ \E dbOk \in BOOLEAN :
         sumRun' = IF dbOk
                   THEN [sumRun EXCEPT !.pc = "resolved",
                                       !.active = CountAlerts(alerts, {AlertActive})]
                   ELSE SummaryFailed("failed to count active alerts")
    /\ UNCHANGED <<thresholds, alerts, metrics, clock, crashed, evalPc, evalLocal,
                   evalTrace, apiResult, sev, loopVars, logVars, call>>

\* the count of the resolved alerts
SummaryResolved ==
    /\ Alive
    /\ sumRun.pc = "resolved"
    /\ \E dbOk \in BOOLEAN :
         sumRun' = IF dbOk
                   THEN [sumRun EXCEPT !.pc = "byType",
                                       !.resolved = CountAlerts(alerts, {AlertResolved})]
                   ELSE SummaryFailed("failed to count resolved alerts")
    /\ UNCHANGED <<thresholds, alerts, metrics, clock, crashed, evalPc, evalLocal,
                   evalTrace, apiResult, sev, loopVars, logVars, call>>

\* the counts by metric type
SummaryByType ==
    /\ Alive
    /\ sumRun.pc = "byType"
    /\ \E dbOk \in BOOLEAN :
         sumRun' = IF dbOk
                   THEN [sumRun EXCEPT !.pc = "bySeverity",
                                       !.byType = GroupCounts(alerts, "type")]
                   ELSE SummaryFailed("failed to get alerts by type")
    /\ UNCHANGED <<thresholds, alerts, metrics, clock, crashed, evalPc, evalLocal,
                   evalTrace, apiResult, sev, loopVars, logVars, call>>

\* the counts by severity
SummaryBySeverity ==
    /\ Alive
    /\ sumRun.pc = "bySeverity"
    /\ \E dbOk \in BOOLEAN :
         sumRun' = IF dbOk
                   THEN [sumRun EXCEPT !.pc = "recent",
                                       !.bySeverity = GroupCounts(alerts, "severity")]
                   ELSE SummaryFailed("failed to get alerts by severity")
    /\ UNCHANGED <<thresholds, alerts, metrics, clock, crashed, evalPc, evalLocal,
                   evalTrace, apiResult, sev, loopVars, logVars, call>>

\* the recent alerts, and the return of the summary
SummaryRecent ==
    /\ Alive
    /\ sumRun.pc = "recent"
    /\ \E dbOk \in BOOLEAN, limit \in Limits :
         IF dbOk
         THEN \E rows \in GetAlertsOf(alerts, limit) :
                 sumRun' = [sumRun EXCEPT !.pc = "done", !.recent = rows]
         ELSE sumRun' = SummaryFailed("failed to get recent alerts")
    /\ UNCHANGED <<thresholds, alerts, metrics, clock, crashed, evalPc, evalLocal,
                   evalTrace, apiResult, sev, loopVars, logVars, call>>


\* ----------------------------------------------------------- LogAnalyzer
\* a line is a sequence of tokens: a token is a bracket, a colon, a blank or
\* a word, and the characters of a line are those of its tokens in a row
INFO == "INFO"
WARN == "WARN"
ERROR == "ERROR"
DEBUG == "DEBUG"
LogLevels == {INFO, WARN, ERROR, DEBUG}

Tokens == {"[", "]", ":", " ", "INFO", "error", "Warn", "debug", "x"}

\* strings.ToUpper on a word
ToUpper(word) ==
    CASE word = "error" -> "ERROR"
      [] word = "Warn" -> "WARN"
      [] word = "debug" -> "DEBUG"
      [] word = "x" -> "X"
      [] OTHER -> word

\* variant: the pattern lacks (?i)
IsLevelWordExact(word) == word \in LogLevels

\* (?i)(INFO|WARN|ERROR|DEBUG) matches the whole word
IsLevelWord(word) == ToUpper(word) \in LogLevels

RECURSIVE TrimLeft(_)
TrimLeft(line) ==
    IF line # <<>> /\ Head(line) = " " THEN TrimLeft(Tail(line)) ELSE line

RECURSIVE TrimRight(_)
TrimRight(line) ==
    IF line # <<>> /\ Last(line) = " "
    THEN TrimRight(SubSeq(line, 1, Len(line) - 1)) ELSE line

\* strings.TrimSpace
TrimSpace(line) == TrimRight(TrimLeft(line))

NoMatch == [found |-> FALSE, bracket |-> "", prefix |-> ""]

\* the pattern tried at position i: \[(LEVEL)\] first, then ^(LEVEL):
MatchAt(line, i) ==
    IF i + 2 <= Len(line) /\ line[i] = "[" /\ IsLevelWord(line[i + 1])
       /\ line[i + 2] = "]"
    THEN [found |-> TRUE, bracket |-> line[i + 1], prefix |-> ""]
    ELSE IF i = 1 /\ Len(line) >= 2 /\ IsLevelWord(line[1]) /\ line[2] = ":"
    THEN [found |-> TRUE, bracket |-> "", prefix |-> line[1]]
    ELSE NoMatch

\* logPattern.FindStringSubmatch: the leftmost match, with its two groups
RECURSIVE FindFrom(_, _)
FindFrom(line, i) ==
    IF i > Len(line) THEN NoMatch
    ELSE IF MatchAt(line, i).found THEN MatchAt(line, i)
    ELSE FindFrom(line, i + 1)

FindStringSubmatch(line) == FindFrom(line, 1)

\* variant: the part after the last sep
AfterLast(line, sep) ==
    LET at == {i \in 1..Len(line) : line[i] = sep}
    IN  IF at = {} THEN [found |-> FALSE, rest |-> <<>>]
        ELSE LET i == CHOOSE x \in at : \A y \in at : y <= x
             IN  [found |-> TRUE, rest |-> SubSeq(line, i + 1, Len(line))]

\* strings.SplitN(line, sep, 2): the part after the first sep (none: no sep)
RECURSIVE AfterFirst(_, _)
AfterFirst(line, sep) ==
    IF line = <<>> THEN [found |-> FALSE, rest |-> <<>>]
    ELSE IF Head(line) = sep THEN [found |-> TRUE, rest |-> Tail(line)]
    ELSE AfterFirst(Tail(line), sep)

NilEntry == [nil |-> TRUE, Level |-> "", Message |-> <<>>]

\* LogAnalyzer.ParseLine
ParseLine(line) ==
    LET matches == FindStringSubmatch(line)
        sep == IF matches.bracket # "" THEN "]" ELSE ":"
        level == IF matches.bracket # "" THEN ToUpper(matches.bracket)
                 ELSE ToUpper(matches.prefix)
        parts == AfterFirst(line, sep)
        message == IF parts.found THEN TrimSpace(parts.rest) ELSE <<>>
    IN  IF ~matches.found THEN NilEntry
        ELSE [nil |-> FALSE, Level |-> level,
              Message |-> IF message = <<>> THEN line ELSE message]

\* m[key]++ on a Go map
Increment(m, key) ==
    [k \in DOMAIN m \cup {key} |->
        IF k = key THEN (IF key \in DOMAIN m THEN m[key] ELSE 0) + 1 ELSE m[k]]

\* the LogStats and the errorMessages map that ParseLogFile starts with
NewScan ==
    [LevelCounts |-> <<>>, TotalEntries |-> 0, errorMessages |-> <<>>]

\* variant: every non-blank line is counted as an entry
ScanLineCountAll(scan, text) ==
    LET line == TrimSpace(text)
        entry == ParseLine(line)
    IN  IF line = <<>> THEN scan
        ELSE [LevelCounts |-> IF entry.nil THEN scan.LevelCounts
                              ELSE Increment(scan.LevelCounts, entry.Level),
              TotalEntries |-> scan.TotalEntries + 1,
              errorMessages |-> IF ~entry.nil /\ entry.Level = ERROR
                                THEN Increment(scan.errorMessages, entry.Message)
                                ELSE scan.errorMessages]

\* one pass of the scanner loop of ParseLogFile
ScanLine(scan, text) ==
    LET line == TrimSpace(text)
        entry == ParseLine(line)
    IN  IF line = <<>> \/ entry.nil THEN scan
        ELSE [LevelCounts |-> Increment(scan.LevelCounts, entry.Level),
              TotalEntries |-> scan.TotalEntries + 1,
              errorMessages |-> IF entry.Level = ERROR
                                THEN Increment(scan.errorMessages, entry.Message)
                                ELSE scan.errorMessages]

\* the scanner loop over the lines of a file
RECURSIVE ScanLines(_, _)
ScanLines(scan, lines) ==
    IF lines = <<>> THEN scan
    ELSE ScanLines(ScanLine(scan, Head(lines)), Tail(lines))

TopN == 5

\* variant: the entries are not sorted before the cut
TopErrorsUnsorted(errorMessages, topN) ==
    LET msgs == DOMAIN errorMessages
        n == Cardinality(msgs)
        keep == IF n > topN THEN topN ELSE n
        orders == {order \in [1..n -> msgs] :
                     \A i, j \in 1..n : i # j => order[i] # order[j]}
    IN  {[i \in 1..keep |-> [Message |-> order[i], Count |-> errorMessages[order[i]]]] :
            order \in orders}

\* getTopErrors: the map is walked in any order and sort.Slice is not stable,
\* so every order of the messages by count, highest first, can come out; the
\* first topN of it are returned
TopErrorsOf(errorMessages, topN) ==
    LET msgs == DOMAIN errorMessages
        n == Cardinality(msgs)
        keep == IF n > topN THEN topN ELSE n
        sorted == {order \in [1..n -> msgs] :
                     /\ \A i, j \in 1..n : i # j => order[i] # order[j]
                     /\ \A i, j \in 1..n :
                           i < j => errorMessages[order[i]] >= errorMessages[order[j]]}
    IN  {[i \in 1..keep |-> [Message |-> order[i], Count |-> errorMessages[order[i]]]] :
            order \in sorted}

\* a nil *LogStats
NilStats ==
    [nil |-> TRUE, LevelCounts |-> <<>>, TopErrors |-> <<>>, TotalEntries |-> 0]

\* a run of the analyzer that has not begun; entries: what ParseLine
\* returned for each line read so far (a nil entry for a blank line, which
\* is not parsed)
NoLogRun ==
    [pc |-> "idle", lines |-> <<>>, next |-> 1, scan |-> NewScan,
     entries |-> <<>>, stats |-> NilStats, err |-> "nil"]

\* os.Open
OpenLogFile ==
    /\ logRun.pc = "idle"
    /\ \E ok \in BOOLEAN :
         logRun' = IF ok THEN [logRun EXCEPT !.pc = "scan"]
                   ELSE [logRun EXCEPT !.pc = "done",
                                       !.err = "failed to open log file"]
    /\ UNCHANGED <<thresholds, alerts, metrics, clock, crashed, evalPc, evalLocal,
                   evalTrace, apiResult, sev, loopVars, apiVars>>

\* variant: a read error returns the statistics of the lines read before it
ScanFailedPartial(run) ==
    [run EXCEPT !.pc = "done", !.err = "error reading log file",
                !.stats = [nil |-> FALSE,
                           LevelCounts |-> run.scan.LevelCounts,
                           TopErrors |-> <<>>,
                           TotalEntries |-> run.scan.TotalEntries]]

\* scanner.Err() is not nil after the loop: return nil and the error
ScanFailed(run) == [run EXCEPT !.pc = "done", !.err = "error reading log file"]

\* scanner.Scan() returned a line, or false on a read error
ScanNext ==
    /\ logRun.pc = "scan"
    /\ logRun.next <= Len(logRun.lines)
    /\ \E ok \in BOOLEAN :
         logRun' =
            IF ok
            THEN [logRun EXCEPT
                     !.scan = ScanLine(@, logRun.lines[logRun.next]),
                     !.entries = Append(@, ParseLine(TrimSpace(logRun.lines[logRun.next]))),
                     !.next = @ + 1]
            ELSE ScanFailed(logRun)
    /\ UNCHANGED <<thresholds, alerts, metrics, clock, crashed, evalPc, evalLocal,
                   evalTrace, apiResult, sev, loopVars, apiVars>>

\* scanner.Scan() returned false at the end of the file: the top errors, return
FinishLogFile ==
    /\ logRun.pc = "scan"
    /\ logRun.next > Len(logRun.lines)
    /\ \E top \in TopErrorsOf(logRun.scan.errorMessages, TopN) :
         logRun' = [logRun EXCEPT
                       !.pc = "done",
                       !.stats = [nil |-> FALSE,
                                  LevelCounts |-> logRun.scan.LevelCounts,
                                  TopErrors |-> top,
                                  TotalEntries |-> logRun.scan.TotalEntries]]
    /\ UNCHANGED <<thresholds, alerts, metrics, clock, crashed, evalPc, evalLocal,
                   evalTrace, apiResult, sev, loopVars, apiVars>>

\* sequences of at most n elements of a set
SeqsUpTo(S, n) == UNION {[1..k -> S] : k \in 0..n}

\* lines of a log file: the two forms of a tag, in several letter cases,
\* lines without a tag, a blank line, and lines with two tags
SampleLines ==
    {<<"[", "INFO", "]", " ", "x">>,
     <<"[", "error", "]", " ", "x">>,
     <<" ", "[", "error", "]", "x", " ">>,
     <<"Warn", ":", " ", "x">>,
     <<"x", " ", "error", " ", "x">>,
     <<" ", " ">>,
     <<"debug", ":", "x", "[", "INFO", "]">>,
     <<"[", "INFO", "]", "[", "error", "]">>}

\* the files that are analyzed: up to MaxLines sample lines, and every
\* one-line file of up to MaxTokens tokens
InputFiles ==
    SeqsUpTo(SampleLines, MaxLines) \cup {<<line>> : line \in SeqsUpTo(Tokens, MaxTokens)}

\* ------------------------------------------------- main and the two loops
Tasks == {"collector", "monitor"}

\* base: the rows the metrics table held when the cycle began; writes: what
\* the store answered to each Create of the cycle
NoCollLocal ==
    [now |-> 0, cpuPercent |-> <<>>, UsedPercent |-> 0, err |-> "nil",
     base |-> 0, writes |-> <<>>]

\* main has started both goroutines and waits for the signal
InitLoops ==
    /\ mainPc = "serving"
    /\ tickC = [task \in Tasks |-> 0]
    /\ collPc = "select"
    /\ collLocal = NoCollLocal
    /\ last = [task \in Tasks |-> "none"]
    /\ cycles = 0

\* the goroutine of a task has returned from its loop
Stopped(task) == IF task = "collector" THEN collPc = "stopped" ELSE evalPc = "stopped"

\* the runtime timer of a task's ticker fires (until the deferred ticker.Stop):
\* time.Ticker sends on a channel of capacity 1 without blocking, so a tick is
\* kept when the channel is empty and lost when it holds one already
TickerFires ==
    /\ Alive
    /\ \E task \in Tasks :
         /\ ~Stopped(task)
         /\ tickC' = [tickC EXCEPT ![task] = 1]
    /\ UNCHANGED <<thresholds, alerts, metrics, clock, crashed, evalPc, evalLocal,
                   evalTrace, apiResult, sev, mainPc, collPc, collLocal, last, cycles, logVars, apiVars>>

\* <-quit received: cancel() closes ctx.Done(), then server.Shutdown runs
Signal ==
    /\ Alive
    /\ mainPc = "serving"
    /\ mainPc' = "shutdown"
    /\ UNCHANGED <<thresholds, alerts, metrics, clock, crashed, evalPc, evalLocal,
                   evalTrace, apiResult, sev, tickC, collPc, collLocal, last, cycles, logVars, apiVars>>

\* server.Shutdown returned and main returns: the process ends, whatever the
\* two goroutines are doing (main waits for neither)
MainExit ==
    /\ Alive
    /\ mainPc = "shutdown"
    /\ mainPc' = "exited"
    /\ UNCHANGED <<thresholds, alerts, metrics, clock, crashed, evalPc, evalLocal,
                   evalTrace, apiResult, sev, tickC, collPc, collLocal, last, cycles, logVars, apiVars>>

\* ---- Collector.Start
\* variant: an error of collectMetrics ends the loop
AfterCollectStop(err) == IF err = "nil" THEN "select" ELSE "stopped"

\* collectMetrics returned to Start: an error is logged, the loop goes on
AfterCollect(err) == "select"

\* case <-ctx.Done() of Start's select (stopCh is never closed by main)
CollectorStop ==
    /\ Alive
    /\ collPc = "select"
    /\ mainPc # "serving"
    /\ collPc' = "stopped"
    /\ UNCHANGED <<thresholds, alerts, metrics, clock, crashed, evalPc, evalLocal,
                   evalTrace, apiResult, sev, mainPc, tickC, collLocal, last, cycles, logVars, apiVars>>

\* case <-ticker.C: collectMetrics begins, now := time.Now()
CollectorTick ==
    /\ Alive
    /\ collPc = "select"
    /\ tickC["collector"] = 1
    /\ tickC' = [tickC EXCEPT !["collector"] = 0]
    /\ clock < MaxClock
    /\ clock' = TimeNow
    /\ collPc' = "cpu"
    /\ collLocal' = [NoCollLocal EXCEPT !.now = TimeNow, !.base = Len(metrics)]
    /\ cycles < MaxCycles
    /\ cycles' = cycles + 1
    /\ UNCHANGED <<thresholds, alerts, metrics, crashed, evalPc, evalLocal,
                   evalTrace, apiResult, sev, mainPc, last, logVars, apiVars>>

\* the cpu Create of collectMetrics: only for a non-empty list, and a
\* refused Create is only logged
SaveCpu(table, percents, saved, now) ==
    IF Len(percents) > 0 /\ saved
    THEN Append(table, Metric(CPUUsage, percents[1], now))
    ELSE table

\* variant: the memory Create is skipped when no cpu reading was made
SaveMemoryIfCpu(table, percents, UsedPercent, saved, now) ==
    IF saved /\ Len(percents) > 0
    THEN Append(table, Metric(MemoryUsage, UsedPercent, now))
    ELSE table

\* the memory Create of collectMetrics
SaveMemory(table, percents, UsedPercent, saved, now) ==
    IF saved THEN Append(table, Metric(MemoryUsage, UsedPercent, now)) ELSE table

\* cpu.Percent returned (after its one-second window): the error return, or
\* the cpu Create
CollectCpu ==
    /\ Alive
    /\ collPc = "cpu"
    /\ \E cpuRes \in CpuResults, saved \in BOOLEAN :
         IF cpuRes.err
         THEN /\ collPc' = "returned"
              /\ collLocal' = [collLocal EXCEPT !.err = "failed to get CPU usage"]
              /\ metrics' = metrics
         ELSE /\ metrics' = SaveCpu(metrics, cpuRes.percents, saved, collLocal.now)
              /\ Len(metrics') <= MaxMetrics
              /\ collPc' = "mem"
              /\ collLocal' = [collLocal EXCEPT
                    !.cpuPercent = cpuRes.percents,
                    !.writes = IF Len(cpuRes.percents) = 0 THEN @
                               ELSE Append(@, IF saved THEN "cpu_ok" ELSE "cpu_refused")]
    /\ UNCHANGED <<thresholds, alerts, clock, crashed, evalPc, evalLocal,
                   evalTrace, apiResult, sev, mainPc, tickC, last, cycles, logVars, apiVars>>

\* mem.VirtualMemory returned: the error return, or the memory Create and the
\* closing log line, which indexes cpuPercent[0]
CollectMem ==
    /\ Alive
    /\ collPc = "mem"
    /\ \E memRes \in MemResults, saved \in BOOLEAN :
         IF memRes.err
         THEN /\ collPc' = "returned"
              /\ collLocal' = [collLocal EXCEPT !.err = "failed to get memory usage"]
              /\ metrics' = metrics
              /\ crashed' = crashed
         ELSE /\ metrics' = SaveMemory(metrics, collLocal.cpuPercent,
                                       memRes.UsedPercent, saved, collLocal.now)
              /\ Len(metrics') <= MaxMetrics
              /\ crashed' = (Len(collLocal.cpuPercent) = 0)
              /\ collPc' = IF crashed' THEN collPc ELSE "returned"
              /\ collLocal' = [collLocal EXCEPT
                    !.UsedPercent = memRes.UsedPercent,
                    !.writes = Append(@, IF saved THEN "mem_ok" ELSE "mem_refused")]
    /\ UNCHANGED <<thresholds, alerts, clock, evalPc, evalLocal,
                   evalTrace, apiResult, sev, mainPc, tickC, last, cycles, logVars, apiVars>>

\* collectMetrics returned to the loop of Start
CollectReturn ==
    /\ Alive
    /\ collPc = "returned"
    /\ collPc' = AfterCollect(collLocal.err)
    /\ collLocal' = NoCollLocal
    /\ last' = [last EXCEPT !["collector"] =
                   IF collLocal.err = "nil" THEN "ok" ELSE "failed"]
    /\ UNCHANGED <<thresholds, alerts, metrics, clock, crashed, evalPc, evalLocal,
                   evalTrace, apiResult, sev, mainPc, tickC, cycles, logVars, apiVars>>

\* ---- the alert monitoring goroutine as a loop
\* case <-ctx.Done()
MonitorStop ==
    /\ Alive
    /\ evalPc = "select"
    /\ mainPc # "serving"
    /\ evalPc' = "stopped"
    /\ UNCHANGED <<thresholds, alerts, metrics, clock, crashed, evalLocal,
                   evalTrace, apiResult, sev, mainPc, tickC, collPc, collLocal,
                   last, cycles, logVars, apiVars>>

\* case <-ticker.C: a cycle begins; a failing GetCurrentMetrics ends it at once
MonitorTick ==
    /\ tickC["monitor"] = 1
    /\ tickC' = [tickC EXCEPT !["monitor"] = 0]
    /\ cycles < MaxCycles
    /\ cycles' = cycles + 1
    /\ EvalCycle
    /\ last' = [last EXCEPT !["monitor"] = IF evalPc' = "select" THEN "failed" ELSE @]
    /\ UNCHANGED <<mainPc, collPc, collLocal>>

\* CheckThresholds returned to the loop
MonitorReturn ==
    /\ EvalLoopAgain
    /\ last' = [last EXCEPT !["monitor"] =
                   IF evalLocal.err = "nil" THEN "ok" ELSE "failed"]
    /\ UNCHANGED <<mainPc, tickC, collPc, collLocal, cycles>>

\* ---- start-up and restart of the process on one database
\* main calls InitializeThresholds before it starts the goroutines and the
\* server; an error ends the process (log.Fatalf). call.arg: the rows the
\* table held before the call
StartUp ==
    /\ ~crashed
    /\ mainPc = "starting"
    /\ \E failAt \in 0..(2 * Len(DefaultThresholds)) :
         LET r == InsertMissingUntil(thresholds, DefaultThresholds, 1, failAt)
         IN  /\ thresholds' = r.thresholds
             /\ mainPc' = IF r.err = "nil" THEN "serving" ELSE "exited"
             /\ call' = [op |-> "InitializeThresholds", arg |-> Len(thresholds),
                         result |-> r.err]
    /\ UNCHANGED <<alerts, metrics, clock, crashed, evalPc, evalLocal, evalTrace,
                   apiResult, sev, tickC, collPc, collLocal, last, cycles, logVars,
                   sumRun>>

\* the program is run again after it ended: the tables are as they were left,
\* everything in memory is new
Restart ==
    /\ crashed \/ mainPc = "exited"
    /\ mainPc' = "starting"
    /\ crashed' = FALSE
    /\ evalPc' = "select"
    /\ evalLocal' = NoLocal
    /\ evalTrace' = <<>>
    /\ tickC' = [task \in Tasks |-> 0]
    /\ collPc' = "select"
    /\ collLocal' = NoCollLocal
    /\ last' = [task \in Tasks |-> "none"]
    /\ UNCHANGED <<thresholds, alerts, metrics, clock, apiResult, sev, cycles,
                   logVars, apiVars>>


\* --------------------------------------------------------- severity probe
\* calculateSeverity as each creation path calls it, on chosen inputs
NoSev == [value |-> 0, threshold |-> 0, auto |-> "none", manual |-> "none"]

SevAuto ==
    /\ sev.auto = "none"
    /\ sev' = [sev EXCEPT !.auto =
                  AutoAlert(ThresholdRow(CPUUsage, sev.threshold, TRUE), sev.value,
                            [CPUUsage |-> sev.value, MemoryUsage |-> 0,
                             Timestamp |-> TimeNow]).severity]
    /\ UNCHANGED <<thresholds, alerts, metrics, clock, crashed, evalPc, evalLocal,
                   evalTrace, apiResult, loopVars, logVars, apiVars>>

SevManual ==
    /\ sev.manual = "none"
    /\ sev' = [sev EXCEPT !.manual =
                  ManualAlert([type |-> CPUUsage, value |-> sev.value,
                               threshold |-> sev.threshold], TimeNow).severity]
    /\ UNCHANGED <<thresholds, alerts, metrics, clock, crashed, evalPc, evalLocal,
                   evalTrace, apiResult, loopVars, logVars, apiVars>>

\* ------------------------------------------------------------ specification
Init ==
    /\ thresholds \in {InitializeThresholds(table) : table \in StoredThresholdTables}
    /\ alerts = <<>>
    /\ metrics = <<>>
    /\ clock = 0
    /\ crashed = FALSE
    /\ evalPc = "select"
    /\ evalLocal = NoLocal
    /\ evalTrace = <<>>
    /\ apiResult = ApiResult("none", "nil")
    /\ sev = NoSev
    /\ InitLoops
    /\ InitApi
    /\ logRun = NoLogRun

Next ==
    \/ EvalTick
    \/ EvalThreshold
    \/ EvalCreate
    \/ EvalReturn
    \/ CreateAlert
    \/ ResolveAlert

\* the alert engine: the monitoring goroutine and the manual calls
Spec == Init /\ [][Next]_vars

\* the automatic evaluation path alone: no POST /alerts
NextAuto ==
    \/ EvalTick
    \/ EvalThreshold
    \/ EvalCreate
    \/ EvalReturn
    \/ ResolveAlert

SpecAuto == Init /\ [][NextAuto]_vars

\* the two periodic tasks, the Collector and the monitoring goroutine, on a
\* database that held no threshold before start-up
InitFresh ==
    /\ thresholds = InitializeThresholds(<<>>)
    /\ alerts = <<>>
    /\ metrics = <<>>
    /\ clock = 0
    /\ crashed = FALSE
    /\ evalPc = "select"
    /\ evalLocal = NoLocal
    /\ evalTrace = <<>>
    /\ apiResult = ApiResult("none", "nil")
    /\ sev = NoSev
    /\ InitLoops
    /\ InitApi
    /\ logRun = NoLogRun

NextFlow ==
    \/ CollectTick
    \/ EvalTick
    \/ EvalThreshold
    \/ EvalCreate
    \/ EvalReturn

SpecFlow == InitFresh /\ [][NextFlow]_vars

\* the manual calls alone, on requests of every kind
NextManual ==
    \/ CreateAlertAround
    \/ ResolveAlert

SpecManual == InitFresh /\ [][NextManual]_vars

\* the Collector alone: its ticker and the loop of Start
NextSampler ==
    \/ TickerFires
    \/ CollectorTick
    \/ CollectCpu
    \/ CollectMem
    \/ CollectReturn

SpecSampler == InitFresh /\ [][NextSampler]_vars

\* the process: main, the two tickers, the Collector and the monitoring
\* goroutine, from start-up on a fresh database to the return of main
NextLoops ==
    \/ TickerFires
    \/ Signal
    \/ MainExit
    \/ CollectorStop
    \/ CollectorTick
    \/ CollectCpu
    \/ CollectMem
    \/ CollectReturn
    \/ MonitorStop
    \/ MonitorTick
    \/ EvalThreshold
    \/ EvalCreate
    \/ MonitorReturn

SpecLoops == InitFresh /\ [][NextLoops]_vars

\* the analyzer on every file of a bounded set
InitLogs ==
    /\ thresholds = InitializeThresholds(<<>>)
    /\ alerts = <<>>
    /\ metrics = <<>>
    /\ clock = 0
    /\ crashed = FALSE
    /\ evalPc = "select"
    /\ evalLocal = NoLocal
    /\ evalTrace = <<>>
    /\ apiResult = ApiResult("none", "nil")
    /\ sev = NoSev
    /\ InitLoops
    /\ InitApi
    /\ logRun \in {[NoLogRun EXCEPT !.lines = file] : file \in InputFiles}

NextLogs ==
    \/ OpenLogFile
    \/ ScanNext
    \/ FinishLogFile

SpecLogs == InitLogs /\ [][NextLogs]_vars

\* files with up to six distinct ERROR messages, each up to MaxRepeat times,
\* in the bracketed and in the prefix form by turns, after an INFO line that
\* has the text of an ERROR message
ErrorTexts == <<"a", "b", "c", "d", "e", "f">>

ErrorLine(text, k) ==
    IF k % 2 = 1 THEN <<"[", "error", "]", " ", text>> ELSE <<"ERROR", ":", text, " ">>

RECURSIVE Repeated(_, _)
Repeated(text, n) ==
    IF n = 0 THEN <<>> ELSE Append(Repeated(text, n - 1), ErrorLine(text, n))

RECURSIVE FileOf(_, _)
FileOf(counts, i) ==
    IF i > Len(ErrorTexts) THEN <<>>
    ELSE Repeated(ErrorTexts[i], counts[i]) \o FileOf(counts, i + 1)

ErrorFiles ==
    {<<<<"[", "INFO", "]", " ", "a">>>> \o FileOf(counts, 1) :
        counts \in [1..Len(ErrorTexts) -> 0..MaxRepeat]}

InitTopErrors ==
    /\ thresholds = InitializeThresholds(<<>>)
    /\ alerts = <<>>
    /\ metrics = <<>>
    /\ clock = 0
    /\ crashed = FALSE
    /\ evalPc = "select"
    /\ evalLocal = NoLocal
    /\ evalTrace = <<>>
    /\ apiResult = ApiResult("none", "nil")
    /\ sev = NoSev
    /\ InitLoops
    /\ InitApi
    /\ logRun \in {[NoLogRun EXCEPT !.lines = file] : file \in ErrorFiles}

SpecTopErrors == InitTopErrors /\ [][NextLogs]_vars


\* a later moment of a fresh installation: the clock has been read twice
InitStore ==
    /\ thresholds = InitializeThresholds(<<>>)
    /\ alerts = <<>>
    /\ metrics = <<>>
    /\ clock = 2
    /\ crashed = FALSE
    /\ evalPc = "select"
    /\ evalLocal = NoLocal
    /\ evalTrace = <<>>
    /\ apiResult = ApiResult("none", "nil")
    /\ sev = NoSev
    /\ InitLoops
    /\ InitApi
    /\ logRun = NoLogRun


\* the two cycles, the manual alert calls and the read accessors of metrics
NextStore ==
    \/ CollectTick
    \/ EvalTick
    \/ EvalThreshold
    \/ EvalCreate
    \/ EvalReturn
    \/ CreateAlert
    \/ ResolveAlert
    \/ GetMetricHistory
    \/ GetMetricSummary
    \/ CurrentMetricsCall

SpecStore == InitStore /\ [][NextStore]_vars


\* the program is started on a database that holds any thresholds table
InitRestart ==
    /\ thresholds \in StoredThresholdTables
    /\ alerts = <<>>
    /\ metrics = <<>>
    /\ clock = 0
    /\ crashed = FALSE
    /\ evalPc = "select"
    /\ evalLocal = NoLocal
    /\ evalTrace = <<>>
    /\ apiResult = ApiResult("none", "nil")
    /\ sev = NoSev
    /\ mainPc = "starting"
    /\ tickC = [task \in Tasks |-> 0]
    /\ collPc = "select"
    /\ collLocal = NoCollLocal
    /\ last = [task \in Tasks |-> "none"]
    /\ cycles = 0
    /\ InitApi
    /\ logRun = NoLogRun

NextRestart ==
    \/ StartUp
    \/ EvalTick
    \/ EvalThreshold
    \/ EvalCreate
    \/ EvalReturn
    \/ Signal
    \/ MainExit
    \/ Restart

SpecRestart == InitRestart /\ [][NextRestart]_vars


\* GetAlertSummary among the manual calls
NextSummary ==
    \/ CreateAlert
    \/ ResolveAlert
    \/ SummaryTotal
    \/ SummaryActive
    \/ SummaryResolved
    \/ SummaryByType
    \/ SummaryBySeverity
    \/ SummaryRecent

SpecSummary == InitFresh /\ [][NextSummary]_vars


\* the manual calls, ResolveAlert with the id it was asked for
NextResolve ==
    \/ CreateAlert
    \/ ResolveAlertObserved

SpecResolve == InitFresh /\ [][NextResolve]_vars


\* calculateSeverity on every input of a bounded range
InitSeverity ==
    /\ thresholds = InitializeThresholds(<<>>)
    /\ alerts = <<>>
    /\ metrics = <<>>
    /\ clock = 0
    /\ crashed = FALSE
    /\ evalPc = "select"
    /\ evalLocal = NoLocal
    /\ evalTrace = <<>>
    /\ apiResult = ApiResult("none", "nil")
    /\ sev \in [value : 0..MaxSevValue, threshold : (-2)..MaxSevThreshold,
                 auto : {"none"}, manual : {"none"}]
    /\ InitLoops
    /\ InitApi
    /\ logRun = NoLogRun

NextSeverity ==
    \/ SevAuto
    \/ SevManual

SpecSeverity == InitSeverity /\ [][NextSeverity]_vars

\* ------------------------------------------------------------------ claims
\* what the Sample Source returned for a type to the running cycle
SampleOf(metricType) ==
    IF metricType = CPUUsage
    THEN (IF evalLocal.cpuPercent = <<>> THEN 0 ELSE evalLocal.cpuPercent[1])
    ELSE evalLocal.UsedPercent

\* the threshold the running cycle is at
AtThreshold == evalLocal.thresholds[evalLocal.idx]

\* this step is one of the monitoring goroutine inside CheckThresholds
CycleStep == evalPc \in {"loop", "create"} /\ <<evalPc, evalLocal>>' # <<evalPc, evalLocal>>

\* the store refused the statement of this step
StoreFailed ==
    /\ Len(evalTrace') = Len(evalTrace) + 1
    /\ Last(evalTrace').outcome \in {"lookup_failed", "create_failed", "resolve_failed"}

ActiveCount(metricType) == Cardinality(ActiveOfType(alerts, metricType))

\* C1: with automatic evaluation cycles only (no manual creation), every
\* metric type has zero or one alert with status active in every state.
C1_AtMostOneActive == \A t \in MetricTypes : ActiveCount(t) <= 1

\* a type was alerted, resolved and alerted again by the cycles
C1_Witness ==
    \E t \in MetricTypes :
        /\ ActiveCount(t) = 1
        /\ \E i \in 1..Len(alerts) :
              alerts[i].type = t /\ alerts[i].status = AlertResolved

\* C2: in a cycle, a reading strictly above an enabled threshold with no
\* active alert of the type leads to the Create, which (the store accepting
\* it) adds exactly one alert: active, value the reading, threshold the
\* configured one, triggered_at the reading's timestamp, resolved_at unset;
\* a reading equal to the threshold creates nothing.
C2_CreateOnBreach ==
    /\ [][(CycleStep /\ evalPc = "loop" /\ ~StoreFailed
            /\ SampleOf(AtThreshold.type) > AtThreshold.threshold
            /\ ~HasActiveAlert(alerts, AtThreshold.type))
          => (evalPc' = "create" /\ evalLocal' = evalLocal /\ alerts' = alerts)]_vars
    /\ [][(CycleStep /\ evalPc = "create" /\ ~StoreFailed)
          => /\ Len(alerts') = Len(alerts) + 1
             /\ SubSeq(alerts', 1, Len(alerts)) = alerts
             /\ LET new == Last(alerts')
                IN  /\ new.type = AtThreshold.type
                    /\ new.status = AlertActive
                    /\ new.value = SampleOf(AtThreshold.type)
                    /\ new.threshold = AtThreshold.threshold
                    /\ AtThreshold \in SeqToSet(thresholds)
                    /\ new.triggered_at = evalLocal.currentMetrics.Timestamp
                    /\ new.resolved_at = Nil]_vars
    /\ [][(CycleStep /\ evalPc = "loop"
            /\ SampleOf(AtThreshold.type) = AtThreshold.threshold)
          => (evalPc' # "create" /\ Len(alerts') = Len(alerts))]_vars
    /\ [](evalPc = "create" =>
            /\ AtThreshold.enabled
            /\ SampleOf(AtThreshold.type) > AtThreshold.threshold)

\* a cycle created an alert after time had passed since the reading
C2_Witness ==
    /\ evalTrace # <<>>
    /\ Last(evalTrace).outcome = "created"
    /\ Last(alerts).type = Last(evalTrace).type
    /\ Last(alerts).triggered_at < clock

\* C3: in a cycle, a reading at or below an enabled threshold resolves (the
\* store accepting the update) every alert of the type that was active,
\* however many: each gets status resolved and resolved_at set, and the
\* type has no active alert afterwards.
C3_ResolveAll ==
    [][(CycleStep /\ evalPc = "loop" /\ ~StoreFailed
         /\ SampleOf(AtThreshold.type) <= AtThreshold.threshold)
       => /\ Len(alerts') = Len(alerts)
          /\ \A i \in ActiveOfType(alerts, AtThreshold.type) :
                /\ alerts'[i].status = AlertResolved
                /\ alerts'[i].resolved_at # Nil
                /\ alerts'[i].resolved_at = clock'
          /\ ActiveOfType(alerts', AtThreshold.type) = {}]_vars

\* a cycle resolved two active alerts of one type at once
C3_Witness ==
    /\ evalTrace # <<>>
    /\ Last(evalTrace).outcome = "resolved"
    /\ Last(evalTrace).rows = 2
    /\ \A i \in 1..Len(alerts) :
          alerts[i].type = Last(evalTrace).type => alerts[i].status = AlertResolved

\* C4: in a cycle, a reading above the threshold while an active alert of
\* the type exists changes nothing in the alerts table: no row is added and
\* no row is updated.
C4_NoDuplicateNoUpdate ==
    [][(CycleStep /\ evalPc = "loop"
         /\ SampleOf(AtThreshold.type) > AtThreshold.threshold
         /\ HasActiveAlert(alerts, AtThreshold.type))
       => (alerts' = alerts /\ evalPc' # "create")]_vars

\* a cycle found an active alert whose value differs from the new reading
C4_Witness ==
    /\ evalTrace # <<>>
    /\ Last(evalTrace).outcome = "exists"
    /\ \E i \in ActiveOfType(alerts, Last(evalTrace).type) :
          /\ alerts[i].value # SampleOf(alerts[i].type)
          /\ alerts[i].triggered_at < evalLocal.currentMetrics.Timestamp

\* the types whose threshold row is disabled
DisabledTypes ==
    {t \in MetricTypes :
        \E i \in 1..Len(thresholds) : thresholds[i].type = t /\ ~thresholds[i].enabled}

\* C5: a cycle changes no alert of a type whose threshold is disabled,
\* whatever the reading: none is created, none is resolved, and an active
\* alert of that type stays active.
C5_DisabledSkipped ==
    [][(<<evalPc, evalLocal>>' # <<evalPc, evalLocal>>)
       => \A t \in DisabledTypes :
             /\ \A i \in 1..Len(alerts) : alerts[i].type = t => alerts'[i] = alerts[i]
             /\ \A i \in 1..Len(alerts') : alerts'[i].type = t => i <= Len(alerts)]_vars

\* a whole cycle ran, with a reading above the disabled threshold, after an
\* alert of the disabled type became active, and the alert is still active
C5_Witness ==
    /\ evalPc = "returned"
    /\ evalLocal.err = "nil"
    /\ \E t \in DisabledTypes :
          /\ \E i \in ActiveOfType(alerts, t) :
                alerts[i].triggered_at < evalLocal.currentMetrics.Timestamp
          /\ \E i \in 1..Len(thresholds) :
                /\ thresholds[i].type = t
                /\ SampleOf(t) > thresholds[i].threshold
          /\ evalTrace # <<>>

\* C6: over all operations, an alert only ever moves from active to
\* resolved: no row is deleted, a resolved row never changes again (its
\* resolved_at included), resolved_at is set at the moment of resolution,
\* and it is set exactly on the resolved rows.
C6_ResolvedIsFinal ==
    /\ [][/\ Len(alerts') >= Len(alerts)
          /\ \A i \in 1..Len(alerts) :
                /\ alerts[i].status = AlertResolved => alerts'[i] = alerts[i]
                /\ (alerts[i].status = AlertActive /\ alerts'[i].status = AlertResolved)
                      => (alerts'[i].resolved_at = clock' /\ clock' > clock)]_vars
    /\ [](\A i \in 1..Len(alerts) :
             /\ alerts[i].status \in {AlertActive, AlertResolved}
             /\ alerts[i].status = AlertResolved <=> alerts[i].resolved_at # Nil)

\* a cycle ran the resolution for the type of an alert that had been
\* resolved before the cycle began
C6_Witness ==
    /\ evalTrace # <<>>
    /\ Last(evalTrace).outcome = "resolved"
    /\ \E i \in 1..Len(alerts) :
          /\ alerts[i].type = Last(evalTrace).type
          /\ alerts[i].status = AlertResolved
          /\ alerts[i].resolved_at < clock
          /\ alerts[i].resolved_at < evalLocal.currentMetrics.Timestamp

FailedOutcomes == {"create_failed", "resolve_failed"}

\* C8: a Create or an UPDATE that fails for one type does not abort the
\* cycle: CheckThresholds still returns nil, and when it returns it has
\* evaluated every enabled threshold, each exactly once and in order.
C8_FailureIsolated ==
    (\E k \in 1..Len(evalTrace) : evalTrace[k].outcome \in FailedOutcomes) =>
        /\ evalLocal.err = "nil"
        /\ evalLocal.thresholds = EnabledThresholds(thresholds)
        /\ evalPc \in {"loop", "create", "returned"}
        /\ evalPc = "returned" =>
              /\ Len(evalTrace) = Len(evalLocal.thresholds)
              /\ \A k \in 1..Len(evalTrace) :
                    evalTrace[k].type = evalLocal.thresholds[k].type

\* after the first type's write failed, the second type's alert was created
\* or its alerts resolved, and the cycle returned
C8_Witness ==
    /\ evalPc = "returned"
    /\ Len(evalTrace) = 2
    /\ evalTrace[1].outcome \in FailedOutcomes
    /\ \/ evalTrace[2].outcome = "created"
       \/ evalTrace[2].outcome = "resolved" /\ evalTrace[2].rows > 0

\* the tier of the severity policy: the whole part of the exceed percentage
\* reaches an integer bound exactly when the percentage does
C9_Tier(value, threshold) ==
    LET exceedPct == ((value - threshold) * 100) \div threshold
    IN  IF exceedPct >= 50 THEN SeverityCritical
        ELSE IF exceedPct >= 25 THEN SeverityHigh
        ELSE IF exceedPct >= 10 THEN SeverityMedium
        ELSE SeverityLow

C10_ResolveIdempotent ==
    /\ [][(CycleStep /\ evalPc = "loop"
            /\ SampleOf(AtThreshold.type) <= AtThreshold.threshold
            /\ ~HasActiveAlert(alerts, AtThreshold.type))
          => /\ alerts' = alerts
             /\ evalLocal'.err = "nil"
             /\ ~StoreFailed =>
                   /\ Last(evalTrace').outcome = "resolved"
                   /\ Last(evalTrace').rows = 0]_vars
    /\ [](\A t \in MetricTypes :
             LET once == ResolveActiveRows(alerts, t, TimeNow)
             IN  /\ ResolveActiveRows(once, t, TimeNow + 1) = once
                 /\ ActiveOfType(once, t) = {})

\* a cycle ran the resolution on a type whose alerts were all resolved
\* before, and it affected no row
C10_Witness ==
    /\ evalTrace # <<>>
    /\ Last(evalTrace).outcome = "resolved"
    /\ Last(evalTrace).rows = 0
    /\ \E i \in 1..Len(alerts) :
          /\ alerts[i].type = Last(evalTrace).type
          /\ alerts[i].resolved_at # Nil
          /\ alerts[i].resolved_at < evalLocal.currentMetrics.Timestamp

\* this step is a CreateAlert call
CreateAlertStep == apiResult'.op = "CreateAlert" /\ clock' # clock

\* C11: a CreateAlert call that the store accepts adds exactly one alert,
\* active, resolved_at unset, triggered_at the time of the call, whether or
\* not the type has an active alert and whether or not the value exceeds the
\* threshold; no call, accepted or refused, changes an existing alert.
C11_ManualCreateAdds ==
    /\ [][(CreateAlertStep /\ apiResult'.err = "nil")
          => /\ Len(alerts') = Len(alerts) + 1
             /\ Last(alerts').status = AlertActive
             /\ Last(alerts').resolved_at = Nil
             /\ Last(alerts').triggered_at = clock'
             /\ Last(alerts').id = Len(alerts')]_vars
    /\ [][CreateAlertStep
          => /\ Len(alerts') >= Len(alerts)
             /\ SubSeq(alerts', 1, Len(alerts)) = alerts]_vars
    /\ [][(CreateAlertStep /\ apiResult'.err # "nil") => alerts' = alerts]_vars

\* a call added a second active alert to a type, with a value that does not
\* exceed its threshold, and the first alert is as it was
C11_Witness ==
    /\ apiResult = ApiResult("CreateAlert", "nil")
    /\ Len(alerts) = 2
    /\ alerts[1].type = alerts[2].type
    /\ alerts[1].status = AlertActive
    /\ alerts[1].value > alerts[1].threshold
    /\ alerts[2].status = AlertActive
    /\ alerts[2].value <= alerts[2].threshold
    /\ alerts[2].triggered_at > alerts[1].triggered_at

\* the readings the running sampling cycle has appended so far
Appended == SubSeq(metrics, collLocal.base + 1, Len(metrics))

\* C12 as stated: a sampling cycle in which the cpu call or the memory call
\* failed has appended no reading of any type.
C12_FailedCycleAppendsNothing ==
    (collPc = "returned" /\ collLocal.err # "nil") => Appended = <<>>

\* this step takes the Collector out of a cycle that failed
FailedCollectStep ==
    collPc = "returned" /\ collLocal.err # "nil" /\ collPc' # collPc

\* this step takes the monitoring goroutine out of a cycle in which
\* CheckThresholds failed
FailedCheckStep ==
    evalPc = "returned" /\ evalLocal.err # "nil" /\ evalPc' # evalPc

\* this step is the monitoring goroutine receiving a tick
MonitorTickStep == evalPc = "select" /\ tickC["monitor"] = 1 /\ tickC'["monitor"] = 0

\* C13: a sampling cycle that failed on the Sample Source and an evaluation
\* cycle that failed (in CheckThresholds, or at once in GetCurrentMetrics)
\* both leave their loop at its select with the process running; while no
\* shutdown signal has fired no loop has returned and the only step a loop
\* takes from its select begins a new cycle, which a waiting tick enables.
C13_FailureKeepsLoop ==
    /\ [][FailedCollectStep => (collPc' = "select" /\ ~crashed')]_vars
    /\ [][FailedCheckStep => (evalPc' = "select" /\ ~crashed')]_vars
    /\ [][(mainPc = "serving" /\ collPc = "select" /\ collPc' # collPc)
          => (collPc' = "cpu" /\ cycles' = cycles + 1)]_vars
    /\ [][MonitorTickStep
          => /\ evalPc' \in {"select", "loop", "returned"}
             /\ evalPc' = "select" => last'["monitor"] = "failed"
             /\ cycles' = cycles + 1
             /\ ~crashed']_vars
    /\ [][(mainPc = "serving" /\ evalPc = "select" /\ evalPc' # evalPc)
          => MonitorTickStep]_vars
    /\ [](mainPc = "serving" => (collPc # "stopped" /\ evalPc # "stopped"))
    /\ []((Alive /\ clock < MaxClock /\ cycles < MaxCycles) =>
            /\ (collPc = "select" /\ tickC["collector"] = 1) => ENABLED CollectorTick
            /\ (evalPc = "select" /\ tickC["monitor"] = 1) => ENABLED MonitorTick)

\* after a sampling cycle that failed, with no signal, the next cycle of the
\* Collector has begun and has passed its cpu call
C13_Witness ==
    /\ mainPc = "serving"
    /\ last["collector"] = "failed"
    /\ collPc = "mem"

\* a sampling cycle in which both Sample Source calls succeeded has ended
BothCallsSucceeded ==
    \/ collPc = "returned" /\ collLocal.err = "nil"
    \/ crashed

\* C14 as stated: a sampling cycle in which both calls succeeded has appended
\* exactly one cpu reading and exactly one memory reading.
C14_OneReadingPerType ==
    BothCallsSucceeded =>
        /\ Len(Appended) = 2
        /\ \E k \in 1..2 : Appended[k].type = CPUUsage
        /\ \E k \in 1..2 : Appended[k].type = MemoryUsage

\* the readings a cycle is to append, given what the store answered
ExpectedReadings(local) ==
    (IF "cpu_ok" \in SeqToSet(local.writes)
     THEN <<Metric(CPUUsage, local.cpuPercent[1], local.now)>> ELSE <<>>)
    \o (IF "mem_ok" \in SeqToSet(local.writes)
        THEN <<Metric(MemoryUsage, local.UsedPercent, local.now)>> ELSE <<>>)

\* C14 as amended: a sampling cycle in which both calls succeeded has tried
\* one memory Create and, when the cpu call returned at least one
\* percentage, one cpu Create before it (none for an empty list); it has
\* appended exactly the readings whose Create the store accepted, each with
\* the sampled value and the cycle's timestamp, and nothing else.
C14_OneCreatePerReading ==
    BothCallsSucceeded =>
        /\ Len(collLocal.writes) = (IF collLocal.cpuPercent = <<>> THEN 1 ELSE 2)
        /\ Last(collLocal.writes) \in {"mem_ok", "mem_refused"}
        /\ collLocal.cpuPercent # <<>> => collLocal.writes[1] \in {"cpu_ok", "cpu_refused"}
        /\ Appended = ExpectedReadings(collLocal)

\* the second cycle of the Collector, both calls succeeding, appended a cpu
\* reading and a memory reading of different values
C14_Witness ==
    /\ collPc = "returned"
    /\ collLocal.err = "nil"
    /\ last["collector"] # "none"
    /\ collLocal.writes = <<"cpu_ok", "mem_ok">>
    /\ Len(Appended) = 2
    /\ Appended[1].value # Appended[2].value

\* a cycle of the task is executing
InCycle(task) ==
    IF task = "collector" THEN collPc \in {"cpu", "mem", "returned"}
    ELSE evalPc \in {"loop", "create", "returned"}

\* C15 as stated: each task is one goroutine at one position, so at most one
\* of its cycles is executing, and a tick that fires while a cycle of the
\* task is executing is dropped: no tick waits in the task's ticker.C to
\* begin a further cycle when the running one ends.
C15_TickDuringCycleDropped ==
    \A task \in Tasks : InCycle(task) => tickC[task] = 0

\* C16 as stated: the process never ends in the middle of a sampling or an
\* evaluation cycle; a cycle that was in flight at the signal has run to its
\* end when main returns.
C16_NoExitInMidCycle ==
    mainPc = "exited" => \A task \in Tasks : ~InCycle(task)

\* C17 as stated, for the bounded life of the process: once the shutdown
\* signal has fired both loops return, so both have returned by the time
\* the process has ended; and a loop that has returned stays returned.
C17_LoopsReturn ==
    /\ mainPc = "exited" => \A task \in Tasks : Stopped(task)
    /\ \A task \in Tasks : Stopped(task) => (mainPc # "serving" /\ ~InCycle(task))

\* what CheckThresholds is to do for a type, from that type's data alone
Decision(reading, threshold, hasActive) ==
    IF reading > threshold
    THEN (IF hasActive THEN "none" ELSE "create")
    ELSE "resolve"

\* what the step of the cycle did
Taken ==
    IF evalPc' = "create" THEN "create"
    ELSE IF Len(evalTrace') = Len(evalTrace) + 1
            /\ Last(evalTrace').outcome \in {"resolved", "resolve_failed"}
    THEN "resolve"
    ELSE "none"

\* C18: whatever a step of a cycle does for the type it is at (create,
\* resolve, nothing, or a refused statement), every alert of every other
\* type stays as it was and no alert of another type appears; and the
\* transition it takes is the one that the type's own reading, threshold and
\* active alerts decide.
C18_TypesIndependent ==
    /\ [][CycleStep
          => /\ Len(alerts') >= Len(alerts)
             /\ \A i \in 1..Len(alerts) :
                   alerts[i].type # AtThreshold.type => alerts'[i] = alerts[i]
             /\ \A i \in (Len(alerts) + 1)..Len(alerts') :
                   alerts'[i].type = AtThreshold.type]_vars
    /\ [][(CycleStep /\ evalPc = "loop" /\ ~StoreFailed)
          => Taken = Decision(SampleOf(AtThreshold.type), AtThreshold.threshold,
                              HasActiveAlert(alerts, AtThreshold.type))]_vars
    /\ [][(CycleStep /\ evalPc = "loop" /\ StoreFailed)
          => (Taken # "create" /\ alerts' = alerts)]_vars

\* one cycle resolved the active alert of its first type and created an
\* alert for its second type, with an alert of the first type in the table
C18_Witness ==
    /\ Len(evalTrace) = 2
    /\ evalTrace[1].type # evalTrace[2].type
    /\ evalTrace[1].outcome = "resolved"
    /\ evalTrace[1].rows > 0
    /\ evalTrace[2].outcome = "created"
    /\ \E i \in 1..Len(alerts) :
          alerts[i].type = evalTrace[1].type /\ alerts[i].status = AlertResolved
    /\ Last(alerts).type = evalTrace[2].type
    /\ Last(alerts).status = AlertActive

\* the line has the bracketed tag of level L somewhere
HasBracketTag(line, L) ==
    \E i \in 1..(Len(line) - 2) :
        line[i] = "[" /\ ToUpper(line[i + 1]) = L /\ line[i + 2] = "]"

\* the line starts with the prefix of level L
HasPrefixTag(line, L) == Len(line) >= 2 /\ ToUpper(line[1]) = L /\ line[2] = ":"

HasTag(line) == \E L \in LogLevels : HasBracketTag(line, L) \/ HasPrefixTag(line, L)

\* the trimmed text of the k-th line of the file
TrimmedLine(k) == TrimSpace(logRun.lines[k])

\* the lines read so far that carry a tag (a blank line carries none)
MatchingLines == {k \in 1..(logRun.next - 1) : HasTag(TrimmedLine(k))}

RECURSIVE SumCounts(_)
SumCounts(m) ==
    IF DOMAIN m = {} THEN 0
    ELSE LET k == CHOOSE x \in DOMAIN m : TRUE
         IN  m[k] + SumCounts([x \in DOMAIN m \ {k} |-> m[x]])

\* the example file of the specification
ExampleFile ==
    <<<<"[", "INFO", "]", " ", "a">>,
      <<"[", "ERROR", "]", " ", "b">>,
      <<"[", "ERROR", "]", " ", "b">>,
      <<"garbage", " ", "line">>,
      <<"WARN", ":", " ", "c">>>>

\* C19: while a file is read and when it has been read, total_entries is the
\* number of the lines read that carry a level tag (a blank line and a line
\* without a tag add nothing) and the sum of the level_counts; a run that
\* ends without an open or read error returns these statistics, and for a
\* file without a matching line they are 0, no level and no top error; the
\* example file gives INFO 1, ERROR 2, WARN 1, total 4 and b twice.
C19_TotalEntries ==
    /\ logRun.scan.TotalEntries = Cardinality(MatchingLines)
    /\ logRun.scan.TotalEntries = SumCounts(logRun.scan.LevelCounts)
    /\ logRun.err \in {"nil", "failed to open log file", "error reading log file"}
    /\ logRun.pc = "done" => (logRun.stats.nil <=> logRun.err # "nil")
    /\ (logRun.pc = "done" /\ logRun.err = "nil") =>
          /\ logRun.next = Len(logRun.lines) + 1
          /\ logRun.stats.TotalEntries = Cardinality(MatchingLines)
          /\ logRun.stats.TotalEntries = SumCounts(logRun.stats.LevelCounts)
          /\ MatchingLines = {} =>
                /\ logRun.stats.TotalEntries = 0
                /\ DOMAIN logRun.stats.LevelCounts = {}
                /\ logRun.stats.TopErrors = <<>>
    /\ LET scan == ScanLines(NewScan, ExampleFile)
       IN  /\ scan.TotalEntries = 4
           /\ DOMAIN scan.LevelCounts = {INFO, ERROR, WARN}
           /\ scan.LevelCounts[INFO] = 1
           /\ scan.LevelCounts[ERROR] = 2
           /\ scan.LevelCounts[WARN] = 1
           /\ TopErrorsOf(scan.errorMessages, TopN)
                 = {<<[Message |-> <<"b">>, Count |-> 2]>>}

\* a file of three lines was analyzed: two carry a tag, one has text but no tag
C19_Witness ==
    /\ logRun.pc = "done"
    /\ logRun.err = "nil"
    /\ Len(logRun.lines) = 3
    /\ logRun.stats.TotalEntries = 2
    /\ \E k \in 1..3 : TrimmedLine(k) # <<>> /\ ~HasTag(TrimmedLine(k))

\* C20 as stated: a trimmed line is classified with level L exactly when it
\* has the bracketed tag [L] somewhere or starts with the prefix L:, for
\* each of the four levels.
C20_LevelIffTag ==
    \A k \in 1..Len(logRun.entries) :
        \A L \in LogLevels :
            (~logRun.entries[k].nil /\ logRun.entries[k].Level = L)
                <=> (HasBracketTag(TrimmedLine(k), L) \/ HasPrefixTag(TrimmedLine(k), L))

\* the level of the leftmost tag: the leading prefix, else the first
\* bracketed tag
LeftmostTagLevel(line) ==
    IF \E L \in LogLevels : HasPrefixTag(line, L) THEN ToUpper(line[1])
    ELSE LET tags == {i \in 1..(Len(line) - 2) :
                         \E L \in LogLevels :
                             line[i] = "[" /\ ToUpper(line[i + 1]) = L /\ line[i + 2] = "]"}
             first == CHOOSE i \in tags : \A j \in tags : i <= j
         IN  ToUpper(line[first + 1])

\* C20 as amended: a trimmed line is classified exactly when it has a
\* bracketed tag of one of the four levels somewhere or starts with the
\* prefix of one, in any letter case; it gets one level, the upper-case
\* form of its leftmost tag (the leading prefix, else the first bracketed
\* tag), so level_counts has no key but INFO, WARN, ERROR, DEBUG; a level
\* word that is neither bracketed nor a leading prefix classifies nothing.
C20_LevelOfLeftmostTag ==
    /\ \A k \in 1..Len(logRun.entries) :
          /\ ~logRun.entries[k].nil <=> HasTag(TrimmedLine(k))
          /\ ~logRun.entries[k].nil =>
                /\ logRun.entries[k].Level \in LogLevels
                /\ logRun.entries[k].Level = LeftmostTagLevel(TrimmedLine(k))
    /\ DOMAIN logRun.scan.LevelCounts \subseteq LogLevels
    /\ ParseLine(<<"x", " ", "ERROR", " ", "x">>).nil
    /\ ParseLine(<<"x", "ERROR", ":">>).nil
    /\ ParseLine(<<"[", "ERROR", "x", "]">>).nil

\* a line that starts with a lower-case prefix and has a bracketed tag of
\* another level further on was classified by its prefix
C20_Witness ==
    \E k \in 1..Len(logRun.entries) :
        /\ ~logRun.entries[k].nil
        /\ logRun.entries[k].Level = DEBUG
        /\ TrimmedLine(k)[1] = "debug"
        /\ HasBracketTag(TrimmedLine(k), INFO)
        /\ DEBUG \in DOMAIN logRun.scan.LevelCounts

\* the text without its leading and trailing blanks
Stripped(text) ==
    LET ink == {i \in 1..Len(text) : text[i] # " "}
    IN  IF ink = {} THEN <<>>
        ELSE SubSeq(text, CHOOSE i \in ink : \A j \in ink : i <= j,
                          CHOOSE i \in ink : \A j \in ink : j <= i)

\* what follows the first ] of a line in the bracketed form, the first : of
\* a line in the prefix form (a line that starts with a prefix is in the
\* prefix form)
Remainder(line) ==
    LET sep == IF \E L \in LogLevels : HasPrefixTag(line, L) THEN ":" ELSE "]"
        at == {i \in 1..Len(line) : line[i] = sep}
        first == CHOOSE i \in at : \A j \in at : i <= j
    IN  SubSeq(line, first + 1, Len(line))

ErrorEntries == {k \in 1..Len(logRun.entries) :
                    ~logRun.entries[k].nil /\ logRun.entries[k].Level = ERROR}
ErrorCount(message) ==
    Cardinality({k \in ErrorEntries : logRun.entries[k].Message = message})
ErrorMessages == {logRun.entries[k].Message : k \in ErrorEntries}

\* C22: top_errors has min(5, number of distinct ERROR messages) entries with
\* pairwise distinct messages, in an order of non-increasing count; the count
\* of an entry is the number of ERROR entries with exactly its message; and
\* no message left out has a greater count than one that is included.
C22_TopErrors ==
    (logRun.pc = "done" /\ logRun.err = "nil") =>
        LET top == logRun.stats.TopErrors
            n == Cardinality(ErrorMessages)
            included == {top[i].Message : i \in 1..Len(top)}
        IN  /\ Len(top) = IF n < 5 THEN n ELSE 5
            /\ \A i, j \in 1..Len(top) : i # j => top[i].Message # top[j].Message
            /\ \A i, j \in 1..Len(top) : i < j => top[i].Count >= top[j].Count
            /\ \A i \in 1..Len(top) :
                  /\ top[i].Message \in ErrorMessages
                  /\ top[i].Count = ErrorCount(top[i].Message)
            /\ \A out \in ErrorMessages \ included :
                  \A kept \in included : ErrorCount(out) <= ErrorCount(kept)

\* six distinct ERROR messages, two of them twice: five are returned, the two
\* frequent ones first, and the one left out is as frequent as the last
C22_Witness ==
    /\ logRun.pc = "done"
    /\ logRun.err = "nil"
    /\ Cardinality(ErrorMessages) = 6
    /\ Len(logRun.stats.TopErrors) = 5
    /\ logRun.stats.TopErrors[2].Count = 2
    /\ logRun.stats.TopErrors[3].Count = 1
    /\ <<"a">> \notin {logRun.stats.TopErrors[i].Message : i \in 1..5}
    /\ ErrorCount(<<"a">>) = 1

\* C23: an analysis whose file cannot be opened, or whose read fails part-way,
\* returns an error and no LogStats, whatever was counted before the failure;
\* the failed open or read is not tried again and the analysis ends there.
C23_FailureReturnsNoStats ==
    [][/\ (logRun.pc = "idle" /\ logRun'.pc = "done") =>
             /\ logRun'.err = "failed to open log file"
             /\ logRun'.stats = NilStats
             /\ logRun'.scan = NewScan
       /\ (logRun.pc = "scan" /\ logRun'.pc = "done"
             /\ logRun.next <= Len(logRun.lines)) =>
             /\ logRun'.err = "error reading log file"
             /\ logRun'.stats = NilStats
             /\ logRun'.next = logRun.next
       /\ (logRun'.pc = "done" /\ logRun'.err # "nil") => logRun'.stats.nil
       /\ logRun.pc = "done" => logRun' = logRun]_vars

\* the read failed after two lines with a tag had been counted
C23_Witness ==
    /\ logRun.pc = "done"
    /\ logRun.err = "error reading log file"
    /\ logRun.next = 3
    /\ Len(logRun.lines) = 3
    /\ logRun.scan.TotalEntries = 2
    /\ logRun.stats.nil

\* C24: the stored readings are append-only. Every step keeps each stored
\* reading as it is, at its place; a step that adds readings is a sampling
\* cycle, which stamps them with its own instant, and is no step of an
\* evaluation cycle, of a manual alert call or of a read accessor: those
\* leave the readings as they are.
C24_ReadingsAppendOnly ==
    [][/\ Len(metrics') >= Len(metrics)
       /\ SubSeq(metrics', 1, Len(metrics)) = metrics
       /\ metrics' # metrics =>
             /\ UNCHANGED <<thresholds, alerts, evalPc, evalLocal, evalTrace,
                            apiResult, call>>
             /\ \A i \in (Len(metrics) + 1)..Len(metrics') :
                   metrics'[i].timestamp = clock' /\ clock' > clock]_vars

\* a reading was stored, an evaluation cycle then created an alert, and the
\* history of the type returns the reading as it was stored
C24_Witness ==
    /\ Len(metrics) = 1
    /\ evalPc = "returned"
    /\ evalTrace # <<>>
    /\ evalTrace[1].outcome = "created"
    /\ Len(alerts) = 1
    /\ call.op = "GetMetricHistory"
    /\ call.result.err = "nil"
    /\ call.result.rows = <<metrics[1]>>

\* the rows of a type in a thresholds table
RowsOfType(table, metricType) == {i \in 1..Len(table) : table[i].type = metricType}

\* C25: there is at most one threshold per type. InitializeThresholds, run at
\* every start of the program, adds the default of a type only when the table
\* has no row of the type, so it adds no second row and changes no stored
\* row, neither its value nor its enabled flag; when it returns no error each
\* type has its row; and no step of an evaluation cycle changes the table.
C25_OneThresholdPerType ==
    [][/\ \A metricType \in MetricTypes :
             /\ Cardinality(RowsOfType(thresholds, metricType)) <= 1
             /\ Cardinality(RowsOfType(thresholds', metricType)) <= 1
       /\ Len(thresholds') >= Len(thresholds)
       /\ \A i \in 1..Len(thresholds) : thresholds'[i] = thresholds[i]
       /\ \A i \in (Len(thresholds) + 1)..Len(thresholds') :
             /\ mainPc = "starting"
             /\ RowsOfType(thresholds, thresholds'[i].type) = {}
             /\ \E d \in 1..Len(DefaultThresholds) : thresholds'[i] = DefaultThresholds[d]
       /\ (mainPc = "starting" /\ mainPc' = "serving") =>
             \A metricType \in MetricTypes :
                 Cardinality(RowsOfType(thresholds', metricType)) = 1
       /\ mainPc # "starting" => thresholds' = thresholds]_vars

\* a database that only held a disabled cpu threshold of 70: a first run added
\* the memory default, and a later run found both rows and changed nothing
C25_Witness ==
    /\ thresholds = <<ThresholdRow(CPUUsage, 70, FALSE),
                      ThresholdRow(MemoryUsage, DefaultMemoryThreshold, TRUE)>>
    /\ call = [op |-> "InitializeThresholds", arg |-> 2, result |-> "nil"]
    /\ mainPc = "serving"
    /\ evalPc = "returned"

\* C26: also when manual CreateAlert calls come between the steps of an
\* evaluation cycle, each alert that the cycle inserts is inserted into a
\* table that holds no active alert of its type.
C26_AutoInsertOnlyWithoutActive ==
    [][(CycleStep /\ evalPc = "create" /\ Len(alerts') > Len(alerts)) =>
          ~\E i \in 1..Len(alerts) :
              alerts[i].type = AtThreshold.type /\ alerts[i].status = AlertActive]_vars

\* C27: a sampling cycle whose cpu call returned an empty list and no error
\* completes: when its memory call succeeds the cycle has stored no cpu
\* reading, stores the memory reading, and returns to the loop without
\* crashing the process.
C27_EmptyCpuListCompletes ==
    [][(/\ collPc = "mem"
        /\ collLocal.cpuPercent = <<>>
        /\ collLocal' # collLocal
        /\ collLocal'.err = "nil") =>
          /\ ~crashed'
          /\ collPc' = "returned"
          /\ \A i \in (collLocal.base + 1)..Len(metrics') :
                metrics'[i].type = MemoryUsage]_vars

\* C28: every AlertSummary that is returned has total = active + resolved,
\* and the counts by type and the counts by severity each add up to total,
\* also when alerts are created or resolved between its count queries.
C28_SummaryConsistent ==
    (sumRun.pc = "done" /\ sumRun.err = "nil") =>
        /\ sumRun.total = sumRun.active + sumRun.resolved
        /\ SumCounts(sumRun.byType) = sumRun.total
        /\ SumCounts(sumRun.bySeverity) = sumRun.total

\* C29: when the reading of a type exceeds its threshold and the lookup of
\* the active alert fails with an error other than not-found, the cycle
\* creates no alert, changes no alert, reports no error and goes on to the
\* next threshold (it returns when there is none).
C29_LookupErrorSkipsType ==
    [][(/\ CycleStep
        /\ evalPc = "loop"
        /\ Len(evalTrace') = Len(evalTrace) + 1
        /\ Last(evalTrace').outcome = "lookup_failed") =>
          /\ SampleOf(AtThreshold.type) > AtThreshold.threshold
          /\ alerts' = alerts
          /\ evalPc' = IF evalLocal.idx < Len(evalLocal.thresholds)
                       THEN "loop" ELSE "returned"
          /\ evalLocal' = [evalLocal EXCEPT !.idx = @ + 1]
          /\ evalLocal'.err = "nil"]_vars

\* the lookup failed for the first type, whose reading exceeds its threshold:
\* the type has no alert, and the cycle went on and created the alert of the
\* second type
C29_Witness ==
    /\ evalPc = "returned"
    /\ Len(evalTrace) = 2
    /\ evalTrace[1].outcome = "lookup_failed"
    /\ evalTrace[2].outcome = "created"
    /\ ~\E i \in 1..Len(alerts) : alerts[i].type = evalTrace[1].type
    /\ Last(alerts).type = evalTrace[2].type

\* a manual ResolveAlert was answered
ResolveStep == clock' # clock /\ apiResult'.op = "ResolveAlert"

\* C30: ResolveAlert(id) that returns no error has resolved the alert with
\* that id, which was active, at the instant of the call, and has left every
\* other alert, the active ones of the same type too, as it was; for an id
\* that no alert has, or whose alert is resolved already, it returns an error
\* and changes nothing, so a resolved_at is never overwritten; an error of
\* the store is returned as well and changes nothing.
C30_ResolveExactlyThatAlert ==
    [][ResolveStep =>
          LET id == call'.arg
              target == {i \in 1..Len(alerts) :
                            alerts[i].id = id /\ alerts[i].status = AlertActive}
          IN  /\ call'.op = "ResolveAlert"
              /\ Len(alerts') = Len(alerts)
              /\ IF call'.result = "nil"
                 THEN /\ Cardinality(target) = 1
                      /\ \A i \in 1..Len(alerts) :
                            alerts'[i] =
                               IF i \in target
                               THEN [alerts[i] EXCEPT !.status = AlertResolved,
                                                      !.resolved_at = clock']
                               ELSE alerts[i]
                 ELSE alerts' = alerts
              /\ target = {} =>
                    call'.result \in {"alert not found or already resolved",
                                      "failed to resolve alert"}
              /\ target # {} => call'.result \in {"nil", "failed to resolve alert"}]_vars

\* two active alerts of one type: the first was resolved by its id and the
\* second is still active
C30_Witness ==
    /\ Len(alerts) = 2
    /\ alerts[1].type = alerts[2].type
    /\ alerts[1].status = AlertResolved
    /\ alerts[1].resolved_at = clock
    /\ alerts[2].status = AlertActive
    /\ alerts[2].triggered_at < clock
    /\ call = [op |-> "ResolveAlert", arg |-> 1, result |-> "nil"]

====
